---- MODULE Spec2Model ----
(***************************************************************************)
(* TerminalManager (src/unnamed/part_000, lines 278-742): the supervisor   *)
(* that registers commands, spawns their processes, reacts to the child's  *)
(* data/exit/error events and to its own timers, and reports to observers. *)
(* TerminalExecutor (src/unnamed/part_002) puts the permission gate in     *)
(* front of it.                                                            *)
(*                                                                         *)
(* The Node.js event loop runs one callback at a time, so every handler is *)
(* one action.  The operating system and the child_process library are the *)
(* environment: which event they deliver next is a nondeterministic choice *)
(* among the outcomes that child_process documents (spawn may throw, may   *)
(* fail asynchronously with an 'error' event, kill() may fail and then     *)
(* emits 'error' synchronously, 'data' may arrive after 'exit').           *)
(***************************************************************************)
EXTENDS Integers, Sequences, FiniteSets, TLC

\* ------------------------------------------------------------------ bounds
MaxCmds == 2
MaxData == 1
MaxStops == 1
MaxDenials == 1
MaxArrivals == 2
MaxChunkLen == 2
MaxPieces == 4

Ids == 1..MaxCmds

\* ------------------------------------------------- values of the program
PENDING == "pending"
RUNNING == "running"
COMPLETED == "completed"
FAILED == "failed"
STOPPED == "stopped"
\* status of an id for which executeCommand has not created an object yet
NONE == "none"

TerminalStatuses == {COMPLETED, FAILED, STOPPED}

CHAT == "chat"
MAIN == "main"
Locations == {CHAT, MAIN}

\* exitCode?: number and pid?: number are optional fields: undefined
NoCode == -1
NoPid == 0

SIGTERM == "SIGTERM"
SIGKILL == "SIGKILL"
SIGINT == "SIGINT"
NoSignal == "null"
\* signals a process can be terminated by, whoever sends them
Signals == {SIGTERM, SIGKILL, SIGINT}
\* exit codes a process can exit with
ExitCodes == {0, 3}

NL == "\n"
Whitespace == {" ", "\t", NL}

\* `Error: Command timed out after ${FAILSAFE_TIMEOUT_MS / 1000}s`
TimeoutMsg == <<"Error: Command timed out after 300s">>
\* `Error: ${error.message}` for the two errors child_process emits
SpawnErrMsg == <<"Error: ", "spawn /bin/sh ENOENT">>
KillErrMsg == <<"Error: ", "kill EPERM">>

\* chunks the child writes to a stream (sequences of characters): here one
\* chunk with a blank line in it and no newline at its end
Chunks == { <<"a", NL, " ", NL, "b">> }
Streams == {"stdout", "stderr"}

NoLine == [content |-> <<>>, type |-> "none"]

\* ------------------------------------------------- texts and RegExp
\* A text is a sequence of characters.  String.prototype.toLowerCase maps
\* the letters A-Z; String.prototype.trim removes whitespace at both ends.
UpperChars ==
  << "A", "B", "C", "D", "E", "F", "G", "H", "I", "J", "K", "L", "M",
     "N", "O", "P", "Q", "R", "S", "T", "U", "V", "W", "X", "Y", "Z" >>
LowerChars ==
  << "a", "b", "c", "d", "e", "f", "g", "h", "i", "j", "k", "l", "m",
     "n", "o", "p", "q", "r", "s", "t", "u", "v", "w", "x", "y", "z" >>
Digits == {"0", "1", "2", "3", "4", "5", "6", "7", "8", "9"}

UpperSet == {UpperChars[k] : k \in 1..26}
Letters == UpperSet \cup {LowerChars[k] : k \in 1..26}

LowerChar(ch) ==
  IF ch \in UpperSet
  THEN LowerChars[CHOOSE k \in 1..26 : UpperChars[k] = ch]
  ELSE ch

toLowerCase(s) == [k \in 1..Len(s) |-> LowerChar(s[k])]

trim(s) ==
  IF \A k \in 1..Len(s) : s[k] \in Whitespace THEN <<>>
  ELSE LET a == CHOOSE k \in 1..Len(s) :
                  s[k] \notin Whitespace /\ \A m \in 1..(k - 1) : s[m] \in Whitespace
           b == CHOOSE k \in 1..Len(s) :
                  s[k] \notin Whitespace /\ \A m \in (k + 1)..Len(s) : s[m] \in Whitespace
       IN  SubSeq(s, a, b)

\* the character classes \s, \w and . of RegExp
InClass(ch, class) ==
  CASE class = "s" -> ch \in Whitespace
    [] class = "w" -> ch \in Letters \/ ch \in Digits \/ ch = "_"
    [] class = "." -> ch # NL

\* RegExp syntax trees: a literal, a repeated class (X+, X*, X+?), an
\* alternation, a concatenation, an optional part (R?), a capturing group
\* and the word boundary \b
Lit(s) == [op |-> "lit", s |-> s]
Rep(class, min, greedy) ==
  [op |-> "rep", class |-> class, min |-> min, greedy |-> greedy]
Alt(rs) == [op |-> "alt", rs |-> rs]
Cat(rs) == [op |-> "cat", rs |-> rs]
Opt(r) == [op |-> "opt", r |-> r]
Grp(r) == [op |-> "grp", r |-> r]
WordBoundary == [op |-> "wb"]
SpacePlus == Rep("s", 1, TRUE)
SpaceStar == Rep("s", 0, TRUE)
WordPlus == Rep("w", 1, TRUE)
AnyStar == Rep(".", 0, TRUE)
AnyPlus == Rep(".", 1, TRUE)
AnyPlusLazy == Rep(".", 1, FALSE)

\* The backtracking matcher of RegExp: the ways r matches s from position i
\* (i characters consumed), in the order in which the engine tries them;
\* each way is the position reached and the texts captured.  ci: flag i.
RECURSIVE Span(_, _, _)
\* the number of characters of the class that follow position i
Span(s, i, class) ==
  IF i < Len(s) /\ InClass(s[i + 1], class) THEN 1 + Span(s, i + 1, class)
  ELSE 0

RECURSIVE Run(_, _, _, _), RunAlt(_, _, _, _, _), RunCat(_, _, _, _, _),
          Continue(_, _, _, _, _, _)
Run(r, s, i, ci) ==
  CASE r.op = "lit" ->
         IF /\ i + Len(r.s) <= Len(s)
            /\ \A k \in 1..Len(r.s) :
                 IF ci THEN LowerChar(s[i + k]) = LowerChar(r.s[k])
                 ELSE s[i + k] = r.s[k]
         THEN << [pos |-> i + Len(r.s), caps |-> <<>>] >>
         ELSE <<>>
    [] r.op = "rep" ->
         LET n == Span(s, i, r.class)
         IN  IF n < r.min THEN <<>>
             ELSE [k \in 1..(n - r.min + 1) |->
                    [pos |-> IF r.greedy THEN i + n - k + 1
                             ELSE i + r.min + k - 1,
                     caps |-> <<>>]]
    [] r.op = "alt" -> RunAlt(r.rs, 1, s, i, ci)
    [] r.op = "cat" -> RunCat(r.rs, 1, s, i, ci)
    [] r.op = "opt" -> Run(r.r, s, i, ci) \o << [pos |-> i, caps |-> <<>>] >>
    [] r.op = "grp" ->
         LET ways == Run(r.r, s, i, ci)
         IN  [k \in 1..Len(ways) |->
               [pos |-> ways[k].pos,
                caps |-> << SubSeq(s, i + 1, ways[k].pos) >> \o ways[k].caps]]
    [] r.op = "wb" ->
         LET before == i >= 1 /\ InClass(s[i], "w")
             after == i < Len(s) /\ InClass(s[i + 1], "w")
         IN  IF before # after THEN << [pos |-> i, caps |-> <<>>] >> ELSE <<>>

RunAlt(rs, k, s, i, ci) ==
  IF k > Len(rs) THEN <<>>
  ELSE Run(rs[k], s, i, ci) \o RunAlt(rs, k + 1, s, i, ci)

RunCat(rs, k, s, i, ci) ==
  IF k > Len(rs) THEN << [pos |-> i, caps |-> <<>>] >>
  ELSE Continue(Run(rs[k], s, i, ci), 1, rs, k, s, ci)

\* every way of rs[k], each followed by the ways of the rest of rs
Continue(ways, n, rs, k, s, ci) ==
  IF n > Len(ways) THEN <<>>
  ELSE LET rest == RunCat(rs, k + 1, s, ways[n].pos, ci)
       IN  [m \in 1..Len(rest) |->
             [pos |-> rest[m].pos, caps |-> ways[n].caps \o rest[m].caps]]
           \o Continue(ways, n + 1, rs, k, s, ci)

\* pattern.test(s)
Test(r, s, ci) == \E i \in 0..Len(s) : Run(r, s, i, ci) # <<>>

\* s.match(pattern): the captures of the first way at the leftmost position
\* where the pattern matches (to be used when Test holds)
Match(r, s, ci) ==
  LET i == CHOOSE j \in 0..Len(s) :
             /\ Run(r, s, j, ci) # <<>>
             /\ \A m \in 0..(j - 1) : Run(r, s, m, ci) = <<>>
  IN  Run(r, s, i, ci)[1].caps

\* s.includes(t)
Includes(s, t) == Test(Lit(t), s, FALSE)

\* ------------------------------------------------------- assessCommandRisk
SAFE == "safe"
MODERATE == "moderate"
DANGEROUS == "dangerous"

DangerousPatterns ==
  << Cat(<< Lit(<<"r", "m">>), SpacePlus, Lit(<<"-", "r", "f">>) >>),
     Cat(<< Lit(<<"r", "m">>), SpacePlus, Lit(<<"-", "f", "r">>) >>),
     Lit(<<"s", "u", "d", "o">>),
     Cat(<< Lit(<<"c", "h", "m", "o", "d">>), SpacePlus, Lit(<<"7", "7", "7">>) >>),
     Lit(<<"s", "h", "u", "t", "d", "o", "w", "n">>),
     Lit(<<"r", "e", "b", "o", "o", "t">>),
     Lit(<<"m", "k", "f", "s">>),
     Cat(<< Lit(<<"d", "d">>), SpacePlus, Lit(<<"i", "f", "=">>) >>),
     Lit(<<":", "(", ")", "{">>),
     Lit(<<">", "/", "d", "e", "v", "/", "s", "d">>),
     Cat(<< Lit(<<"c", "u", "r", "l">>), AnyStar, Lit(<<"|">>), AnyStar, Lit(<<"s", "h">>) >>),
     Cat(<< Lit(<<"w", "g", "e", "t">>), AnyStar, Lit(<<"|">>), AnyStar, Lit(<<"s", "h">>) >>) >>

ModeratePatterns ==
  << Cat(<< Lit(<<"r", "m">>), SpacePlus >>),
     Cat(<< Lit(<<"g", "i", "t">>), SpacePlus, Lit(<<"p", "u", "s", "h">>) >>),
     Cat(<< Lit(<<"g", "i", "t">>), SpacePlus, Lit(<<"r", "e", "s", "e", "t">>) >>),
     Cat(<< Lit(<<"n", "p", "m">>), SpacePlus, Lit(<<"i", "n", "s", "t", "a", "l", "l">>) >>),
     Cat(<< Lit(<<"y", "a", "r", "n">>), SpacePlus, Lit(<<"i", "n", "s", "t", "a", "l", "l">>) >>),
     Cat(<< Lit(<<"p", "i", "p">>), SpacePlus, Lit(<<"i", "n", "s", "t", "a", "l", "l">>) >>),
     Cat(<< Lit(<<"a", "p", "t", "-", "g", "e", "t">>), SpacePlus, Lit(<<"i", "n", "s", "t", "a", "l", "l">>) >>),
     Cat(<< Lit(<<"b", "r", "e", "w">>), SpacePlus, Lit(<<"i", "n", "s", "t", "a", "l", "l">>) >>),
     Lit(<<"c", "h", "m", "o", "d">>),
     Lit(<<"c", "h", "o", "w", "n">>) >>

\* patterns.some(pattern => pattern.test(text))
Some(patterns, text, ci) ==
  \E k \in 1..Len(patterns) : Test(patterns[k], text, ci)

\* mutant of assessCommandRisk: the moderate patterns are tested first
assessCommandRisk_moderateFirst(command) ==
  LET text == trim(toLowerCase(command))
  IN  IF Some(ModeratePatterns, text, FALSE) THEN MODERATE
      ELSE IF Some(DangerousPatterns, text, FALSE) THEN DANGEROUS
      ELSE SAFE

\* mutant of assessCommandRisk: the command is not lowercased
assessCommandRisk_caseSensitive(command) ==
  LET text == trim(command)
  IN  IF Some(DangerousPatterns, text, FALSE) THEN DANGEROUS
      ELSE IF Some(ModeratePatterns, text, FALSE) THEN MODERATE
      ELSE SAFE

assessCommandRisk(command) ==
  LET text == trim(toLowerCase(command))
  IN  IF Some(DangerousPatterns, text, FALSE) THEN DANGEROUS
      ELSE IF Some(ModeratePatterns, text, FALSE) THEN MODERATE
      ELSE SAFE

\* the command text of the submissions whose text does not matter
PlainCommand == <<"l", "s">>

\* ------------------------------------------- CommandResolver, matchers
\* /install|dependencies|deps/
InstallIntent == Alt(<< Lit(<<"i", "n", "s", "t", "a", "l", "l">>), Lit(<<"d", "e", "p", "e", "n", "d", "e", "n", "c", "i", "e", "s">>), Lit(<<"d", "e", "p", "s">>) >>)
\* /build|compile/
BuildIntent == Alt(<< Lit(<<"b", "u", "i", "l", "d">>), Lit(<<"c", "o", "m", "p", "i", "l", "e">>) >>)
\* /dev|start|serve|development|server/
DevIntent == Alt(<< Lit(<<"d", "e", "v">>), Lit(<<"s", "t", "a", "r", "t">>), Lit(<<"s", "e", "r", "v", "e">>), Lit(<<"d", "e", "v", "e", "l", "o", "p", "m", "e", "n", "t">>), Lit(<<"s", "e", "r", "v", "e", "r">>) >>)
\* /test|spec/
TestIntent == Alt(<< Lit(<<"t", "e", "s", "t">>), Lit(<<"s", "p", "e", "c">>) >>)
\* /(?:run|execute|start)\s+\w+/
ScriptIntent == Cat(<< Alt(<< Lit(<<"r", "u", "n">>), Lit(<<"e", "x", "e", "c", "u", "t", "e">>), Lit(<<"s", "t", "a", "r", "t">>) >>), SpacePlus, WordPlus >>)
\* /(?:read|show|display|cat|view)\s+(?:file|content)/
ReadFileIntent == Cat(<< Alt(<< Lit(<<"r", "e", "a", "d">>), Lit(<<"s", "h", "o", "w">>), Lit(<<"d", "i", "s", "p", "l", "a", "y">>), Lit(<<"c", "a", "t">>), Lit(<<"v", "i", "e", "w">>) >>), SpacePlus, Alt(<< Lit(<<"f", "i", "l", "e">>), Lit(<<"c", "o", "n", "t", "e", "n", "t">>) >>) >>)
\* /create\s+(?:file|new\s+file)/
CreateFileIntent == Cat(<< Lit(<<"c", "r", "e", "a", "t", "e">>), SpacePlus, Alt(<< Lit(<<"f", "i", "l", "e">>), Cat(<< Lit(<<"n", "e", "w">>), SpacePlus, Lit(<<"f", "i", "l", "e">>) >>) >>) >>)
\* /edit\s+(?:file|content)|replace\s+in\s+file/
EditFileIntent ==
  Alt(<< Cat(<< Lit(<<"e", "d", "i", "t">>), SpacePlus, Alt(<< Lit(<<"f", "i", "l", "e">>), Lit(<<"c", "o", "n", "t", "e", "n", "t">>) >>) >>),
          Cat(<< Lit(<<"r", "e", "p", "l", "a", "c", "e">>), SpacePlus, Lit(<<"i", "n">>), SpacePlus, Lit(<<"f", "i", "l", "e">>) >>) >>)
\* /(?:delete|remove|rm)\s+(?:file|the\s+file)/
DeleteFileIntent ==
  Cat(<< Alt(<< Lit(<<"d", "e", "l", "e", "t", "e">>), Lit(<<"r", "e", "m", "o", "v", "e">>), Lit(<<"r", "m">>) >>), SpacePlus, Alt(<< Lit(<<"f", "i", "l", "e">>), Cat(<< Lit(<<"t", "h", "e">>), SpacePlus, Lit(<<"f", "i", "l", "e">>) >>) >>) >>)
\* /(?:delete|remove|rm)\s+(?:folder|directory|dir)/
DeleteFolderIntent ==
  Cat(<< Alt(<< Lit(<<"d", "e", "l", "e", "t", "e">>), Lit(<<"r", "e", "m", "o", "v", "e">>), Lit(<<"r", "m">>) >>), SpacePlus, Alt(<< Lit(<<"f", "o", "l", "d", "e", "r">>), Lit(<<"d", "i", "r", "e", "c", "t", "o", "r", "y">>), Lit(<<"d", "i", "r">>) >>) >>)
\* /(?:move|mv|rename)\s+/
MoveFileIntent == Cat(<< Alt(<< Lit(<<"m", "o", "v", "e">>), Lit(<<"m", "v">>), Lit(<<"r", "e", "n", "a", "m", "e">>) >>), SpacePlus >>)
\* /(?:copy|cp)\s+/
CopyFileIntent == Cat(<< Alt(<< Lit(<<"c", "o", "p", "y">>), Lit(<<"c", "p">>) >>), SpacePlus >>)
\* /(?:search|grep)\s+(?:for|in)|find\s+files/
SearchFileIntent ==
  Alt(<< Cat(<< Alt(<< Lit(<<"s", "e", "a", "r", "c", "h">>), Lit(<<"g", "r", "e", "p">>) >>), SpacePlus, Alt(<< Lit(<<"f", "o", "r">>), Lit(<<"i", "n">>) >>) >>),
          Cat(<< Lit(<<"f", "i", "n", "d">>), SpacePlus, Lit(<<"f", "i", "l", "e", "s">>) >>) >>)
\* /(?:list|ls|show)\s+files/
ListFilesIntent == Cat(<< Alt(<< Lit(<<"l", "i", "s", "t">>), Lit(<<"l", "s">>), Lit(<<"s", "h", "o", "w">>) >>), SpacePlus, Lit(<<"f", "i", "l", "e", "s">>) >>)
\* /create|generate|scaffold|new\s+project/
ScaffoldIntent ==
  Alt(<< Lit(<<"c", "r", "e", "a", "t", "e">>), Lit(<<"g", "e", "n", "e", "r", "a", "t", "e">>), Lit(<<"s", "c", "a", "f", "f", "o", "l", "d">>),
          Cat(<< Lit(<<"n", "e", "w">>), SpacePlus, Lit(<<"p", "r", "o", "j", "e", "c", "t">>) >>) >>)

isInstallIntent(input) == Test(InstallIntent, input, FALSE)
isBuildIntent(input) == Test(BuildIntent, input, FALSE)
isDevIntent(input) == Test(DevIntent, input, FALSE)
isTestIntent(input) == Test(TestIntent, input, FALSE)
isScriptIntent(input) == Test(ScriptIntent, input, FALSE)
isReadFileIntent(input) == Test(ReadFileIntent, input, FALSE)
isCreateFileIntent(input) ==
  Test(CreateFileIntent, input, FALSE) /\ ~Test(Lit(<<"f", "o", "l", "d", "e", "r">>), input, FALSE)
isEditFileIntent(input) == Test(EditFileIntent, input, FALSE)
isDeleteFileIntent(input) == Test(DeleteFileIntent, input, FALSE)
isMoveFileIntent(input) == Test(MoveFileIntent, input, FALSE)
isCopyFileIntent(input) == Test(CopyFileIntent, input, FALSE)
isSearchFileIntent(input) == Test(SearchFileIntent, input, FALSE)
isListFilesIntent(input) == Test(ListFilesIntent, input, FALSE)
\* lowerInput.includes('create folder') || lowerInput.includes('mkdir')
isMkdirIntent(input) ==
  Includes(input, <<"c", "r", "e", "a", "t", "e", " ", "f", "o", "l", "d", "e", "r">>) \/ Includes(input, <<"m", "k", "d", "i", "r">>)
isDeleteFolderIntent(input) == Test(DeleteFolderIntent, input, FALSE)
\* lowerInput.includes('create file') || lowerInput.includes('touch')
isTouchIntent(input) ==
  Includes(input, <<"c", "r", "e", "a", "t", "e", " ", "f", "i", "l", "e">>) \/ Includes(input, <<"t", "o", "u", "c", "h">>)
isScaffoldIntent(input) == Test(ScaffoldIntent, input, FALSE)

\* the patterns of isDangerousCommand, all with flag i
ResolverDangerousPatterns ==
  << Cat(<< WordBoundary, Lit(<<"r", "m">>), WordBoundary, AnyStar, Lit(<<"-", "r", "f">>) >>),
     Cat(<< WordBoundary, Lit(<<"r", "m">>), WordBoundary, AnyStar, Lit(<<"-", "f", "r">>) >>),
     Cat(<< WordBoundary, Lit(<<"d", "e", "l">>), WordBoundary >>),
     Cat(<< WordBoundary, Lit(<<"f", "o", "r", "m", "a", "t">>), WordBoundary >>),
     Cat(<< WordBoundary, Lit(<<"d", "r", "o", "p">>), SpacePlus, Lit(<<"d", "a", "t", "a", "b", "a", "s", "e">>) >>),
     Cat(<< WordBoundary, Lit(<<"t", "r", "u", "n", "c", "a", "t", "e">>), WordBoundary >>),
     Lit(<<"s", "u", "d", "o">>),
     Cat(<< Lit(<<">">>), SpaceStar, Lit(<<"/", "d", "e", "v", "/">>) >>),
     Cat(<< Lit(<<"d", "d">>), SpacePlus, Lit(<<"i", "f", "=">>) >>) >>

isDangerousCommand(command) == Some(ResolverDangerousPatterns, command, TRUE)

\* ------------------------------------------ CommandResolver, resolvers
\* a ResolvedCommand (its description is left out), and the null result
Resolved(command, isDangerous, requiresConfirmation) ==
  [null |-> FALSE, command |-> command, isDangerous |-> isDangerous,
   requiresConfirmation |-> requiresConfirmation]
Null ==
  [null |-> TRUE, command |-> <<>>, isDangerous |-> FALSE,
   requiresConfirmation |-> FALSE]

\* m ? m[n].trim() : otherwise, for m = input.match(pattern) with flag i
Capture(pattern, input, n, otherwise) ==
  IF Test(pattern, input, TRUE) THEN trim(Match(pattern, input, TRUE)[n])
  ELSE otherwise

Quotes == {"\"", "'"}
\* text.replace(/^["']|["']$/g, '')
StripQuotes(text) ==
  LET a == IF text # <<>> /\ text[1] \in Quotes THEN 2 ELSE 1
      b == IF Len(text) >= a /\ text[Len(text)] \in Quotes
           THEN Len(text) - 1 ELSE Len(text)
  IN  SubSeq(text, a, b)

FileWord == Opt(Cat(<< Lit(<<"f", "i", "l", "e">>), SpacePlus >>))
ToWord == Opt(Cat(<< Lit(<<"t", "o">>), SpacePlus >>))
\* /(?:read|show|display|cat|view)\s+(?:file\s+)?(.+)/i
ReadFilePattern ==
  Cat(<< Alt(<< Lit(<<"r", "e", "a", "d">>), Lit(<<"s", "h", "o", "w">>), Lit(<<"d", "i", "s", "p", "l", "a", "y">>), Lit(<<"c", "a", "t">>),
             Lit(<<"v", "i", "e", "w">>) >>), SpacePlus, FileWord, Grp(AnyPlus) >>)
\* /create\s+(?:file\s+)?(.+?)\s+(?:with\s+)?(?:content\s+)?(.+)/i
CreateContentPattern ==
  Cat(<< Lit(<<"c", "r", "e", "a", "t", "e">>), SpacePlus, FileWord, Grp(AnyPlusLazy), SpacePlus,
         Opt(Cat(<< Lit(<<"w", "i", "t", "h">>), SpacePlus >>)),
         Opt(Cat(<< Lit(<<"c", "o", "n", "t", "e", "n", "t">>), SpacePlus >>)), Grp(AnyPlus) >>)
\* /create\s+(?:file\s+)?(.+)/i
CreatePattern == Cat(<< Lit(<<"c", "r", "e", "a", "t", "e">>), SpacePlus, FileWord, Grp(AnyPlus) >>)
\* /edit\s+(?:file\s+)?(.+?)\s+replace\s+(.+?)\s+with\s+(.+)/i
EditReplacePattern ==
  Cat(<< Lit(<<"e", "d", "i", "t">>), SpacePlus, FileWord, Grp(AnyPlusLazy), SpacePlus,
         Lit(<<"r", "e", "p", "l", "a", "c", "e">>), SpacePlus, Grp(AnyPlusLazy), SpacePlus, Lit(<<"w", "i", "t", "h">>),
         SpacePlus, Grp(AnyPlus) >>)
\* /edit\s+(?:file\s+)?(.+)/i
EditPattern == Cat(<< Lit(<<"e", "d", "i", "t">>), SpacePlus, FileWord, Grp(AnyPlus) >>)
\* /(?:delete|remove|rm)\s+(?:file\s+)?(.+)/i
DeleteFilePattern ==
  Cat(<< Alt(<< Lit(<<"d", "e", "l", "e", "t", "e">>), Lit(<<"r", "e", "m", "o", "v", "e">>), Lit(<<"r", "m">>) >>), SpacePlus,
         FileWord, Grp(AnyPlus) >>)
\* /(?:delete|remove|rm)\s+(?:folder|directory|dir)\s+(.+)/i
DeleteFolderPattern ==
  Cat(<< Alt(<< Lit(<<"d", "e", "l", "e", "t", "e">>), Lit(<<"r", "e", "m", "o", "v", "e">>), Lit(<<"r", "m">>) >>), SpacePlus,
         Alt(<< Lit(<<"f", "o", "l", "d", "e", "r">>), Lit(<<"d", "i", "r", "e", "c", "t", "o", "r", "y">>), Lit(<<"d", "i", "r">>) >>), SpacePlus,
         Grp(AnyPlus) >>)
\* /(?:move|mv|rename)\s+(.+?)\s+(?:to\s+)?(.+)/i
MovePattern ==
  Cat(<< Alt(<< Lit(<<"m", "o", "v", "e">>), Lit(<<"m", "v">>), Lit(<<"r", "e", "n", "a", "m", "e">>) >>), SpacePlus,
         Grp(AnyPlusLazy), SpacePlus, ToWord, Grp(AnyPlus) >>)
\* /(?:copy|cp)\s+(.+?)\s+(?:to\s+)?(.+)/i
CopyPattern ==
  Cat(<< Alt(<< Lit(<<"c", "o", "p", "y">>), Lit(<<"c", "p">>) >>), SpacePlus, Grp(AnyPlusLazy),
         SpacePlus, ToWord, Grp(AnyPlus) >>)
\* /(?:search|grep|find)\s+(?:for\s+)?["']?(.+?)["']?\s+in\s+(.+)/i
GrepPattern ==
  Cat(<< Alt(<< Lit(<<"s", "e", "a", "r", "c", "h">>), Lit(<<"g", "r", "e", "p">>), Lit(<<"f", "i", "n", "d">>) >>), SpacePlus,
         Opt(Cat(<< Lit(<<"f", "o", "r">>), SpacePlus >>)),
         Opt(Alt(<< Lit(<<"\"">>), Lit(<<"'">>) >>)), Grp(AnyPlusLazy),
         Opt(Alt(<< Lit(<<"\"">>), Lit(<<"'">>) >>)), SpacePlus, Lit(<<"i", "n">>),
         SpacePlus, Grp(AnyPlus) >>)
\* /find\s+files?\s+(?:named|called)\s+(.+)/i
FindPattern ==
  Cat(<< Lit(<<"f", "i", "n", "d">>), SpacePlus, Lit(<<"f", "i", "l", "e">>), Opt(Lit(<<"s">>)), SpacePlus,
         Alt(<< Lit(<<"n", "a", "m", "e", "d">>), Lit(<<"c", "a", "l", "l", "e", "d">>) >>), SpacePlus, Grp(AnyPlus) >>)
\* /(?:list|ls|show)\s+(?:files\s+in\s+)?(.+)/i
ListPattern ==
  Cat(<< Alt(<< Lit(<<"l", "i", "s", "t">>), Lit(<<"l", "s">>), Lit(<<"s", "h", "o", "w">>) >>), SpacePlus,
         Opt(Cat(<< Lit(<<"f", "i", "l", "e", "s">>), SpacePlus, Lit(<<"i", "n">>), SpacePlus >>)),
         Grp(AnyPlus) >>)
\* /(?:create folder|mkdir)\s+(.+)/i
MkdirPattern ==
  Cat(<< Alt(<< Lit(<<"c", "r", "e", "a", "t", "e", " ", "f", "o", "l", "d", "e", "r">>), Lit(<<"m", "k", "d", "i", "r">>) >>), SpacePlus,
         Grp(AnyPlus) >>)
\* /(?:create file|touch)\s+(.+)/i
TouchPattern ==
  Cat(<< Alt(<< Lit(<<"c", "r", "e", "a", "t", "e", " ", "f", "i", "l", "e">>), Lit(<<"t", "o", "u", "c", "h">>) >>), SpacePlus,
         Grp(AnyPlus) >>)
\* /(?:run|execute|start)\s+(\w+)/i
ScriptPattern ==
  Cat(<< Alt(<< Lit(<<"r", "u", "n">>), Lit(<<"e", "x", "e", "c", "u", "t", "e">>), Lit(<<"s", "t", "a", "r", "t">>) >>), SpacePlus,
         Grp(WordPlus) >>)

resolveReadFile(input, isDangerous) ==
  Resolved(<<"c", "a", "t", " ">> \o Capture(ReadFilePattern, input, 1, <<>>),
           isDangerous, isDangerous)

resolveCreateFile(input, isDangerous) ==
  IF Test(CreateContentPattern, input, TRUE)
  THEN LET match == Match(CreateContentPattern, input, TRUE)
           filePath == trim(match[1])
           content == StripQuotes(trim(match[2]))
       IN  Resolved(<<"e", "c", "h", "o", " ", "\"">> \o content \o <<"\"", " ", ">", " ">> \o filePath,
                    isDangerous, isDangerous)
  ELSE Resolved(<<"t", "o", "u", "c", "h", " ">> \o Capture(CreatePattern, input, 1, <<"n", "e", "w", "f", "i", "l", "e", ".", "t", "x", "t">>),
                isDangerous, isDangerous)

resolveEditFile(input, isDangerous) ==
  IF Test(EditReplacePattern, input, TRUE)
  THEN LET match == Match(EditReplacePattern, input, TRUE)
           filePath == trim(match[1])
           oldText == StripQuotes(trim(match[2]))
           newText == StripQuotes(trim(match[3]))
       IN  Resolved(<<"s", "e", "d", " ", "-", "i", " ", "'", "'", " ", "'", "s", "/">> \o oldText \o <<"/">> \o newText \o <<"/", "g", "'", " ">>
                      \o filePath, TRUE, TRUE)
  ELSE Resolved(<<"c", "a", "t", " ">> \o Capture(EditPattern, input, 1, <<>>),
                isDangerous, isDangerous)

resolveDeleteFile(input, isDangerous) ==
  Resolved(<<"r", "m", " ">> \o Capture(DeleteFilePattern, input, 1, <<>>), TRUE, TRUE)

resolveDeleteFolder(input, isDangerous) ==
  Resolved(<<"r", "m", " ", "-", "r", "f", " ">> \o Capture(DeleteFolderPattern, input, 1, <<>>),
           TRUE, TRUE)

resolveMoveFile(input, isDangerous) ==
  IF Test(MovePattern, input, TRUE)
  THEN LET match == Match(MovePattern, input, TRUE)
       IN  Resolved(<<"m", "v", " ">> \o trim(match[1]) \o <<" ">> \o trim(match[2]),
                    isDangerous, isDangerous)
  ELSE Resolved(input, isDangerous, isDangerous)

resolveCopyFile(input, isDangerous) ==
  IF Test(CopyPattern, input, TRUE)
  THEN LET match == Match(CopyPattern, input, TRUE)
       IN  Resolved(<<"c", "p", " ", "-", "r", " ">> \o trim(match[1]) \o <<" ">> \o trim(match[2]),
                    isDangerous, isDangerous)
  ELSE Resolved(input, isDangerous, isDangerous)

resolveSearchFile(input, isDangerous) ==
  IF Test(GrepPattern, input, TRUE)
  THEN LET grepMatch == Match(GrepPattern, input, TRUE)
       IN  Resolved(<<"g", "r", "e", "p", " ", "-", "r", " ", "\"">> \o trim(grepMatch[1]) \o <<"\"", " ">>
                      \o trim(grepMatch[2]), isDangerous, isDangerous)
  ELSE IF Test(FindPattern, input, TRUE)
  THEN Resolved(<<"f", "i", "n", "d", " ", ".", " ", "-", "n", "a", "m", "e", " ", "\"">> \o trim(Match(FindPattern, input, TRUE)[1])
                  \o <<"\"">>, isDangerous, isDangerous)
  ELSE Resolved(input, isDangerous, isDangerous)

resolveListFiles(input, isDangerous) ==
  Resolved(<<"l", "s", " ", "-", "l", "a", "h", " ">> \o Capture(ListPattern, input, 1, <<".">>),
           isDangerous, isDangerous)

resolveMkdir(input, isDangerous) ==
  Resolved(<<"m", "k", "d", "i", "r", " ", "-", "p", " ">> \o Capture(MkdirPattern, input, 1, <<"n", "e", "w", "f", "o", "l", "d", "e", "r">>),
           isDangerous, isDangerous)

resolveFileCreation(input, isDangerous) ==
  Resolved(<<"t", "o", "u", "c", "h", " ">> \o Capture(TouchPattern, input, 1, <<"n", "e", "w", "f", "i", "l", "e", ".", "t", "x", "t">>),
           isDangerous, isDangerous)

resolveScaffoldCommand(input, isDangerous) ==
  IF Includes(input, <<"n", "e", "x", "t">>)
  THEN Resolved(<<"n", "p", "x", " ", "c", "r", "e", "a", "t", "e", "-", "n", "e", "x", "t", "-", "a", "p", "p", "@", "l", "a", "t", "e", "s", "t", " ", ".">>, isDangerous, TRUE)
  ELSE IF Includes(input, <<"n", "e", "s", "t">>)
  THEN Resolved(<<"n", "p", "x", " ", "@", "n", "e", "s", "t", "j", "s", "/", "c", "l", "i", " ", "n", "e", "w", " ", ".">>, isDangerous, TRUE)
  ELSE IF Includes(input, <<"r", "e", "a", "c", "t">>)
  THEN Resolved(<<"n", "p", "x", " ", "c", "r", "e", "a", "t", "e", "-", "r", "e", "a", "c", "t", "-", "a", "p", "p", " ", ".">>, isDangerous, TRUE)
  ELSE IF Includes(input, <<"v", "i", "t", "e">>)
  THEN Resolved(<<"n", "p", "m", " ", "c", "r", "e", "a", "t", "e", " ", "v", "i", "t", "e", "@", "l", "a", "t", "e", "s", "t", " ", ".">>, isDangerous, TRUE)
  ELSE Resolved(input, isDangerous, isDangerous)

\* ------------------------------------- CommandResolver, project metadata
CACHE_TTL == 60000

\* stackInfo, as resolveCommand receives it from detectProjectStack()
NodeStacks == {"node", "next", "react"}
Primaries == {"node", "next", "maven", "python", "php", "unknown"}
\* <<>> is an undefined packageManager
PackageManagers == {<<"n", "p", "m">>, <<"y", "a", "r", "n">>, <<"p", "n", "p", "m">>, <<>>}
Stacks == [primary : Primaries, packageManager : PackageManagers]
\* stackInfo.packageManager || 'npm'
pm(stackInfo) ==
  IF stackInfo.packageManager = <<>> THEN <<"n", "p", "m">> ELSE stackInfo.packageManager

\* the workspace folders a window can have open, and no folder at all
NoRoot == "none"
Roots == {"/app", "/lib", "/tmp", "/bad"}
build == <<"b", "u", "i", "l", "d">>
dev == <<"d", "e", "v">>
start == <<"s", "t", "a", "r", "t">>
serve == <<"s", "e", "r", "v", "e">>
test == <<"t", "e", "s", "t">>
lint == <<"l", "i", "n", "t">>
\* package.json of each folder: unreadable, not JSON, or parsed, with the
\* names of the scripts it defines
PackageJson(root) ==
  CASE root = "/app" -> [file |-> "parsed", scripts |-> {build, dev, test, lint}]
    [] root = "/lib" -> [file |-> "parsed", scripts |-> {start}]
    [] root = "/tmp" -> [file |-> "unreadable", scripts |-> {}]
    [] OTHER -> [file |-> "malformed", scripts |-> {}]
\* the scripts of composer.json and of pyproject.toml; whether manage.py exists
ComposerScripts(root) == IF root = "/app" THEN {lint} ELSE {}
PythonScripts(root) == IF root = "/lib" THEN {start, lint} ELSE {}
HasManagePy(root) == root = "/app"

NoCache == [cached |-> FALSE, scripts |-> {}, timestamp |-> 0, from |-> NoRoot]

\* mutant of getPackageJsonScripts: a failed read caches the empty map
getPackageJsonScripts_cacheFailure(cache, root, clock) ==
  IF root = NoRoot THEN [scripts |-> {}, cache |-> cache, read |-> FALSE]
  ELSE IF cache.cached /\ clock - cache.timestamp < CACHE_TTL
  THEN [scripts |-> cache.scripts, cache |-> cache, read |-> FALSE]
  ELSE [scripts |-> PackageJson(root).scripts,
        cache |-> [cached |-> TRUE, scripts |-> PackageJson(root).scripts,
                   timestamp |-> clock, from |-> root],
        read |-> TRUE]

\* The scripts returned, the cache afterwards and whether the file was read.
\* The entry is stored under the constant key 'package.json'; from, the
\* folder it was read from, is not stored by the code.
getPackageJsonScripts(cache, root, clock) ==
  IF root = NoRoot THEN [scripts |-> {}, cache |-> cache, read |-> FALSE]
  ELSE IF cache.cached /\ clock - cache.timestamp < CACHE_TTL
  THEN [scripts |-> cache.scripts, cache |-> cache, read |-> FALSE]
  ELSE IF PackageJson(root).file = "parsed"
  THEN [scripts |-> PackageJson(root).scripts,
        cache |-> [cached |-> TRUE, scripts |-> PackageJson(root).scripts,
                   timestamp |-> clock, from |-> root],
        read |-> TRUE]
  ELSE [scripts |-> {}, cache |-> cache, read |-> TRUE]

getComposerScripts(root) == IF root = NoRoot THEN {} ELSE ComposerScripts(root)
getPythonScripts(root) == IF root = NoRoot THEN {} ELSE PythonScripts(root)

\* Each of the next four returns the command and whether it looked up the
\* scripts of package.json; L is that lookup.
\* mutant of resolveBuildCommand: the package manager is always npm
resolveBuildCommand_npmOnly(stackInfo, isDangerous, L) ==
  LET node == stackInfo.primary \in NodeStacks
      command ==
        IF node /\ build \in L.scripts THEN <<"n", "p", "m", " ", "r", "u", "n", " ", "b", "u", "i", "l", "d">>
        ELSE IF stackInfo.primary = "maven" THEN <<"m", "v", "n", " ", "p", "a", "c", "k", "a", "g", "e">>
        ELSE IF stackInfo.primary = "python" THEN <<"p", "y", "t", "h", "o", "n", " ", "-", "m", " ", "b", "u", "i", "l", "d">>
        ELSE <<"n", "p", "m", " ", "r", "u", "n", " ", "b", "u", "i", "l", "d">>
  IN  [result |-> Resolved(command, isDangerous, isDangerous), called |-> node]

resolveBuildCommand(stackInfo, isDangerous, L) ==
  LET node == stackInfo.primary \in NodeStacks
      command ==
        IF node /\ build \in L.scripts THEN pm(stackInfo) \o <<" ", "r", "u", "n", " ", "b", "u", "i", "l", "d">>
        ELSE IF stackInfo.primary = "maven" THEN <<"m", "v", "n", " ", "p", "a", "c", "k", "a", "g", "e">>
        ELSE IF stackInfo.primary = "python" THEN <<"p", "y", "t", "h", "o", "n", " ", "-", "m", " ", "b", "u", "i", "l", "d">>
        ELSE <<"n", "p", "m", " ", "r", "u", "n", " ", "b", "u", "i", "l", "d">>
  IN  [result |-> Resolved(command, isDangerous, isDangerous), called |-> node]

resolveDevCommand(stackInfo, isDangerous, L, root) ==
  LET node == stackInfo.primary \in NodeStacks
      pythonScripts == getPythonScripts(root)
      command ==
        IF node /\ dev \in L.scripts THEN pm(stackInfo) \o <<" ", "r", "u", "n", " ", "d", "e", "v">>
        ELSE IF node /\ start \in L.scripts THEN pm(stackInfo) \o <<" ", "s", "t", "a", "r", "t">>
        ELSE IF node /\ serve \in L.scripts THEN pm(stackInfo) \o <<" ", "r", "u", "n", " ", "s", "e", "r", "v", "e">>
        ELSE IF stackInfo.primary = "python" /\ root # NoRoot /\ HasManagePy(root)
        THEN <<"p", "y", "t", "h", "o", "n", " ", "m", "a", "n", "a", "g", "e", ".", "p", "y", " ", "r", "u", "n", "s", "e", "r", "v", "e", "r">>
        ELSE IF stackInfo.primary = "python" /\ dev \in pythonScripts
        THEN <<"p", "o", "e", "t", "r", "y", " ", "r", "u", "n", " ", "d", "e", "v">>
        ELSE IF stackInfo.primary = "python" /\ start \in pythonScripts
        THEN <<"p", "o", "e", "t", "r", "y", " ", "r", "u", "n", " ", "s", "t", "a", "r", "t">>
        ELSE IF stackInfo.primary \in {"php", "laravel"}
        THEN <<"p", "h", "p", " ", "a", "r", "t", "i", "s", "a", "n", " ", "s", "e", "r", "v", "e">>
        ELSE <<"n", "p", "m", " ", "r", "u", "n", " ", "d", "e", "v">>
  IN  [result |-> Resolved(command, isDangerous, isDangerous), called |-> node]

resolveTestCommand(stackInfo, isDangerous, L) ==
  LET node == stackInfo.primary \in NodeStacks
      command ==
        IF node /\ test \in L.scripts THEN pm(stackInfo) \o <<" ", "t", "e", "s", "t">>
        ELSE IF stackInfo.primary = "maven" THEN <<"m", "v", "n", " ", "t", "e", "s", "t">>
        ELSE IF stackInfo.primary = "python" THEN <<"p", "y", "t", "e", "s", "t">>
        ELSE IF stackInfo.primary \in {"php", "laravel"}
        THEN <<"p", "h", "p", " ", "a", "r", "t", "i", "s", "a", "n", " ", "t", "e", "s", "t">>
        ELSE <<"n", "p", "m", " ", "t", "e", "s", "t">>
  IN  [result |-> Resolved(command, isDangerous, isDangerous), called |-> node]

\* The script maps are plain objects (JSON.parse, {}): scripts[name] also
\* finds the properties every object inherits.  These are the inherited
\* names written in lower case, as resolveScriptCommand receives the input.
ObjectPrototype ==
  { <<"c", "o", "n", "s", "t", "r", "u", "c", "t", "o", "r">>,
    <<"_", "_", "p", "r", "o", "t", "o", "_", "_">> }

\* if (scripts[scriptName])
Truthy(scripts, scriptName) ==
  scriptName \in scripts \/ scriptName \in ObjectPrototype

resolveScriptCommand(input, stackInfo, isDangerous, L, root) ==
  LET node == stackInfo.primary \in NodeStacks
      scriptName == Match(ScriptPattern, input, TRUE)[1]
      result ==
        IF ~Test(ScriptPattern, input, TRUE) THEN Null
        ELSE IF node /\ Truthy(L.scripts, scriptName)
        THEN Resolved(pm(stackInfo) \o <<" ", "r", "u", "n", " ">> \o scriptName,
                      isDangerous, isDangerous)
        ELSE IF /\ stackInfo.primary \in {"php", "laravel"}
                /\ Truthy(getComposerScripts(root), scriptName)
        THEN Resolved(<<"c", "o", "m", "p", "o", "s", "e", "r", " ", "r", "u", "n", "-", "s", "c", "r", "i", "p", "t", " ">> \o scriptName,
                      isDangerous, isDangerous)
        ELSE IF /\ stackInfo.primary = "python"
                /\ Truthy(getPythonScripts(root), scriptName)
        THEN Resolved(<<"p", "o", "e", "t", "r", "y", " ", "r", "u", "n", " ">> \o scriptName, isDangerous, isDangerous)
        ELSE Null
  IN  [result |-> result,
       called |-> node /\ Test(ScriptPattern, input, TRUE)]

resolveInstallCommand(stackInfo, isDangerous) ==
  LET command ==
        IF stackInfo.primary = "python" THEN <<"p", "i", "p", " ", "i", "n", "s", "t", "a", "l", "l", " ", "-", "r", " ", "r", "e", "q", "u", "i", "r", "e", "m", "e", "n", "t", "s", ".", "t", "x", "t">>
        ELSE IF stackInfo.primary = "maven" THEN <<"m", "v", "n", " ", "i", "n", "s", "t", "a", "l", "l">>
        ELSE IF stackInfo.primary \in {"php", "laravel"}
        THEN <<"c", "o", "m", "p", "o", "s", "e", "r", " ", "i", "n", "s", "t", "a", "l", "l">>
        ELSE pm(stackInfo) \o <<" ", "i", "n", "s", "t", "a", "l", "l">>
  IN  Resolved(command, isDangerous, isDangerous)

\* ------------------------------------------- CommandResolver, resolveCommand
Only(result) == [result |-> result, called |-> FALSE]

\* mutant of resolveCommand: the delete matchers are tried first
resolveCommand_deleteFirst(input, stackInfo, cache, root, clock) ==
  LET lowerInput == trim(toLowerCase(input))
      isDangerous == isDangerousCommand(input)
      L == getPackageJsonScripts(cache, root, clock)
      r == IF isDeleteFileIntent(lowerInput)
             THEN Only(resolveDeleteFile(input, TRUE))
           ELSE IF isDeleteFolderIntent(lowerInput)
             THEN Only(resolveDeleteFolder(input, TRUE))
           ELSE IF isInstallIntent(lowerInput)
             THEN Only(resolveInstallCommand(stackInfo, isDangerous))
           ELSE IF isBuildIntent(lowerInput)
             THEN resolveBuildCommand(stackInfo, isDangerous, L)
           ELSE IF isDevIntent(lowerInput)
             THEN resolveDevCommand(stackInfo, isDangerous, L, root)
           ELSE IF isTestIntent(lowerInput)
             THEN resolveTestCommand(stackInfo, isDangerous, L)
           ELSE IF isScriptIntent(lowerInput)
             THEN resolveScriptCommand(lowerInput, stackInfo, isDangerous, L, root)
           ELSE IF isReadFileIntent(lowerInput)
             THEN Only(resolveReadFile(input, isDangerous))
           ELSE IF isCreateFileIntent(lowerInput)
             THEN Only(resolveCreateFile(input, isDangerous))
           ELSE IF isEditFileIntent(lowerInput)
             THEN Only(resolveEditFile(input, isDangerous))
           ELSE IF isMoveFileIntent(lowerInput)
             THEN Only(resolveMoveFile(input, isDangerous))
           ELSE IF isCopyFileIntent(lowerInput)
             THEN Only(resolveCopyFile(input, isDangerous))
           ELSE IF isSearchFileIntent(lowerInput)
             THEN Only(resolveSearchFile(input, isDangerous))
           ELSE IF isListFilesIntent(lowerInput)
             THEN Only(resolveListFiles(input, isDangerous))
           ELSE IF isMkdirIntent(lowerInput)
             THEN Only(resolveMkdir(input, isDangerous))
           ELSE IF isTouchIntent(lowerInput)
             THEN Only(resolveFileCreation(input, isDangerous))
           ELSE IF isScaffoldIntent(lowerInput)
             THEN Only(resolveScaffoldCommand(lowerInput, isDangerous))
           ELSE Only(Resolved(input, isDangerous, isDangerous))
  IN  [result |-> r.result, called |-> r.called, L |-> L]

\* mutant of resolveCommand: the pass-through returns the normalised input
resolveCommand_lowered(input, stackInfo, cache, root, clock) ==
  LET lowerInput == trim(toLowerCase(input))
      isDangerous == isDangerousCommand(input)
      L == getPackageJsonScripts(cache, root, clock)
      r == IF isInstallIntent(lowerInput)
             THEN Only(resolveInstallCommand(stackInfo, isDangerous))
           ELSE IF isBuildIntent(lowerInput)
             THEN resolveBuildCommand(stackInfo, isDangerous, L)
           ELSE IF isDevIntent(lowerInput)
             THEN resolveDevCommand(stackInfo, isDangerous, L, root)
           ELSE IF isTestIntent(lowerInput)
             THEN resolveTestCommand(stackInfo, isDangerous, L)
           ELSE IF isScriptIntent(lowerInput)
             THEN resolveScriptCommand(lowerInput, stackInfo, isDangerous, L, root)
           ELSE IF isReadFileIntent(lowerInput)
             THEN Only(resolveReadFile(input, isDangerous))
           ELSE IF isCreateFileIntent(lowerInput)
             THEN Only(resolveCreateFile(input, isDangerous))
           ELSE IF isEditFileIntent(lowerInput)
             THEN Only(resolveEditFile(input, isDangerous))
           ELSE IF isDeleteFileIntent(lowerInput)
             THEN Only(resolveDeleteFile(input, TRUE))
           ELSE IF isMoveFileIntent(lowerInput)
             THEN Only(resolveMoveFile(input, isDangerous))
           ELSE IF isCopyFileIntent(lowerInput)
             THEN Only(resolveCopyFile(input, isDangerous))
           ELSE IF isSearchFileIntent(lowerInput)
             THEN Only(resolveSearchFile(input, isDangerous))
           ELSE IF isListFilesIntent(lowerInput)
             THEN Only(resolveListFiles(input, isDangerous))
           ELSE IF isMkdirIntent(lowerInput)
             THEN Only(resolveMkdir(input, isDangerous))
           ELSE IF isDeleteFolderIntent(lowerInput)
             THEN Only(resolveDeleteFolder(input, TRUE))
           ELSE IF isTouchIntent(lowerInput)
             THEN Only(resolveFileCreation(input, isDangerous))
           ELSE IF isScaffoldIntent(lowerInput)
             THEN Only(resolveScaffoldCommand(lowerInput, isDangerous))
           ELSE Only(Resolved(lowerInput, isDangerous, isDangerous))
  IN  [result |-> r.result, called |-> r.called, L |-> L]

\* The result, whether the scripts of package.json were looked up, and that
\* lookup.  cache, root and clock are what the call finds in scriptsCache,
\* workspaceFolders and Date.now().
resolveCommand(input, stackInfo, cache, root, clock) ==
  LET lowerInput == trim(toLowerCase(input))
      isDangerous == isDangerousCommand(input)
      L == getPackageJsonScripts(cache, root, clock)
      r == IF isInstallIntent(lowerInput)
             THEN Only(resolveInstallCommand(stackInfo, isDangerous))
           ELSE IF isBuildIntent(lowerInput)
             THEN resolveBuildCommand(stackInfo, isDangerous, L)
           ELSE IF isDevIntent(lowerInput)
             THEN resolveDevCommand(stackInfo, isDangerous, L, root)
           ELSE IF isTestIntent(lowerInput)
             THEN resolveTestCommand(stackInfo, isDangerous, L)
           ELSE IF isScriptIntent(lowerInput)
             THEN resolveScriptCommand(lowerInput, stackInfo, isDangerous, L, root)
           ELSE IF isReadFileIntent(lowerInput)
             THEN Only(resolveReadFile(input, isDangerous))
           ELSE IF isCreateFileIntent(lowerInput)
             THEN Only(resolveCreateFile(input, isDangerous))
           ELSE IF isEditFileIntent(lowerInput)
             THEN Only(resolveEditFile(input, isDangerous))
           ELSE IF isDeleteFileIntent(lowerInput)
             THEN Only(resolveDeleteFile(input, TRUE))
           ELSE IF isMoveFileIntent(lowerInput)
             THEN Only(resolveMoveFile(input, isDangerous))
           ELSE IF isCopyFileIntent(lowerInput)
             THEN Only(resolveCopyFile(input, isDangerous))
           ELSE IF isSearchFileIntent(lowerInput)
             THEN Only(resolveSearchFile(input, isDangerous))
           ELSE IF isListFilesIntent(lowerInput)
             THEN Only(resolveListFiles(input, isDangerous))
           ELSE IF isMkdirIntent(lowerInput)
             THEN Only(resolveMkdir(input, isDangerous))
           ELSE IF isDeleteFolderIntent(lowerInput)
             THEN Only(resolveDeleteFolder(input, TRUE))
           ELSE IF isTouchIntent(lowerInput)
             THEN Only(resolveFileCreation(input, isDangerous))
           ELSE IF isScaffoldIntent(lowerInput)
             THEN Only(resolveScaffoldCommand(lowerInput, isDangerous))
           ELSE Only(Resolved(input, isDangerous, isDangerous))
  IN  [result |-> r.result, called |-> r.called, L |-> L]

\* ------------------------------------ webview command store (part_004)
MaxLines == 2
\* output lines, and the outputs a command of the store can hold
Lines == {"x", "y"}
Outputs == UNION { [1..k -> Lines] : k \in 0..MaxLines }

\* state.commands[id] of an id the store has no key for, and of one it has
NoEntry ==
  [present |-> FALSE, command |-> "", status |-> NONE, output |-> <<>>]
Entry(command, status, output) ==
  [present |-> TRUE, command |-> command, status |-> status, output |-> output]

\* addCommand: { ...state.commands, [command.id]: { ...command } }
StoreAddCommand(cs, id, command) == [cs EXCEPT ![id] = command]

\* updateCommand(id, {status}): a warning and no change for an unknown id
StoreUpdateCommand(cs, id, status) ==
  IF ~cs[id].present THEN cs ELSE [cs EXCEPT ![id].status = status]

\* the placeholder addOutput creates for an id that is not in the store
Placeholder == Entry("Loading...", RUNNING, <<>>)

\* addOutput(id, output)
StoreAddOutput(cs, id, output) ==
  LET existing == IF cs[id].present THEN cs[id] ELSE Placeholder
  IN  [cs EXCEPT ![id] = [existing EXCEPT !.output = Append(@, output)]]

\* clearCompleted of the store
StoreClearCompleted(cs) ==
  [id \in Ids |-> IF cs[id].status \in TerminalStatuses THEN NoEntry ELSE cs[id]]

\* --------------------------------------------- ProcessManager (part_001)
MaxProcs == 3
\* the ids processes are registered under, and the ManagedProcess objects
Keys == {"a", "b"}
Procs == 1..MaxProcs

\* The Map this.processes is a set of entries [id, proc], one per id.
\* this.processes.get(id)
Get(ps, id) == {en \in ps : en.id = id}

\* register(id, proc): this.processes.set(id, proc)
register(M, id, proc) ==
  [M EXCEPT !.processes = (@ \ Get(@, id)) \cup {[id |-> id, proc |-> proc]}]

\* remove(id): this.processes.delete(id)
remove(M, id) == [M EXCEPT !.processes = @ \ Get(@, id)]

\* proc.dispose() for the process of every entry among ens
Dispose(M, ens) ==
  [M EXCEPT !.disposals =
     [p \in Procs |-> @[p] + Cardinality({en \in ens : en.proc = p})]]

\* stop(id)
stop(M, id) == remove(Dispose(M, Get(M.processes, id)), id)

\* stopAll()
stopAll(M) == [Dispose(M, M.processes) EXCEPT !.processes = {}]

\* ------------------------------------------------------------------ state
VARIABLES
  commands,     \* keys of this.commands (the registry)
  cmd,          \* the TerminalCommand objects, which the closures keep
  processes,    \* keys of this.processes
  terminal,     \* this.terminals.get('main'): absent, open or exited
  isCompleted,  \* the isCompleted flag of each executeInBackground call
  timeout,      \* the fail-safe timer of each executeInBackground call
  escalation,   \* number of armed force-kill timers of stopCommand
  visTimer,     \* the delay timer of executeInMainTerminal
  rejected,     \* executeCommand is suspended at await with a rejection
  proc,         \* the child process as the operating system sees it
  events,       \* what the three observer callbacks received, per command
  kills,        \* the kill() calls the supervisor made, per command
  forced,       \* how many SIGKILLs the force-kill timers sent, per command
  scriptsCache, \* CommandResolver.scriptsCache: its one entry, 'package.json'
  now,          \* Date.now()
  workspaceRoot,\* vscode.workspace.workspaceFolders[0], or none
  resolved,     \* the last resolveCommand call: arguments, result, lookup
  nextId,       \* the next id generateCommandId returns
  budget,       \* remaining data chunks and stop calls (bounds)
  arrived,      \* the chunks the streams delivered, per command, in order
  stopResult,   \* what stopCommand returned to TerminalExecutor, last call
  denied,       \* the 'Command denied' warnings TerminalExecutor logged
  execTerminal, \* TerminalExecutor.terminal: absent or open
  webview,      \* useTerminalStore's commands, and the commands useTerminal
                \* saw at its last render (the closure of handleMessage)
  manager       \* ProcessManager.processes; how often dispose() of each
                \* process was called; the calls made so far

supervisorVars ==
  << commands, cmd, processes, terminal, isCompleted, timeout, escalation,
     visTimer, rejected, proc, events, kills, nextId, budget, arrived,
     stopResult, denied, execTerminal, forced >>
resolverVars == << scriptsCache, now, workspaceRoot, resolved >>
clientVars == << webview, manager >>
vars == << supervisorVars, resolverVars, clientVars >>

\* The state as one record, so that a handler that calls other handlers
\* (kill -> 'error' listener, dispose -> kill for every process) composes.
St ==
  [ commands |-> commands, cmd |-> cmd, processes |-> processes,
    terminal |-> terminal, isCompleted |-> isCompleted, timeout |-> timeout,
    escalation |-> escalation, visTimer |-> visTimer, rejected |-> rejected,
    proc |-> proc, events |-> events, kills |-> kills, nextId |-> nextId,
    budget |-> budget, arrived |-> arrived, stopResult |-> stopResult,
    denied |-> denied, execTerminal |-> execTerminal, forced |-> forced ]

Apply(S) ==
  /\ commands' = S.commands
  /\ cmd' = S.cmd
  /\ processes' = S.processes
  /\ terminal' = S.terminal
  /\ isCompleted' = S.isCompleted
  /\ timeout' = S.timeout
  /\ escalation' = S.escalation
  /\ visTimer' = S.visTimer
  /\ rejected' = S.rejected
  /\ proc' = S.proc
  /\ events' = S.events
  /\ kills' = S.kills
  /\ nextId' = S.nextId
  /\ budget' = S.budget
  /\ arrived' = S.arrived
  /\ stopResult' = S.stopResult
  /\ denied' = S.denied
  /\ execTerminal' = S.execTerminal
  /\ forced' = S.forced
  /\ UNCHANGED << resolverVars, clientVars >>

NoCommand ==
  [ status |-> NONE, exitCode |-> NoCode, pid |-> NoPid, output |-> <<>>,
    location |-> CHAT, ended |-> FALSE, command |-> <<>>, riskLevel |-> NONE ]

NoProc ==
  [ state |-> "none", delivered |-> {}, code |-> NoCode, signal |-> NoSignal ]

\* no call of TerminalExecutor.stopCommand has returned yet
\* a resolveCommand call that looked up no scripts, and no call at all
NoLookup ==
  [called |-> FALSE, root |-> NoRoot, at |-> 0, read |-> FALSE,
   scripts |-> {}, entry |-> NoCache]
NoResolved ==
  [done |-> FALSE, input |-> <<>>,
   stackInfo |-> [primary |-> "unknown", packageManager |-> <<>>],
   root |-> NoRoot, result |-> Null, lookup |-> NoLookup]

NoResult == [id |-> 0, value |-> FALSE]

\* the state after construction, with a budget of data chunks
Start(data, stops) ==
  /\ commands = {}
  /\ cmd = [c \in Ids |-> NoCommand]
  /\ processes = {}
  /\ terminal = "absent"
  /\ isCompleted = [c \in Ids |-> FALSE]
  /\ timeout = [c \in Ids |-> "none"]
  /\ escalation = [c \in Ids |-> 0]
  /\ visTimer = [c \in Ids |-> "none"]
  /\ rejected = [c \in Ids |-> FALSE]
  /\ proc = [c \in Ids |-> NoProc]
  /\ events = [c \in Ids |-> <<>>]
  /\ kills = [c \in Ids |-> {}]
  /\ nextId = 1
  /\ budget = [data |-> data, stops |-> stops]
  /\ arrived = [c \in Ids |-> <<>>]
  /\ stopResult = NoResult
  /\ denied = 0
  /\ execTerminal = "absent"
  /\ forced = [c \in Ids |-> 0]
  /\ scriptsCache = NoCache
  /\ now = 0
  /\ workspaceRoot = "/app"
  /\ resolved = NoResolved
  /\ webview = [commands |-> [id \in Ids |-> NoEntry], rendered |-> {}]
  /\ manager = [processes |-> {}, disposals |-> [p \in Procs |-> 0],
                created |-> 0, removed |-> {}, last |-> "none"]

Init == Start(MaxData, MaxStops)

\* ---------------------------------------------------------------- helpers
\* content.split('\n')
RECURSIVE Split(_)
Split(s) ==
  IF s = <<>> THEN << <<>> >>
  ELSE LET rest == Split(Tail(s))
       IN  IF Head(s) = NL THEN << <<>> >> \o rest
           ELSE << <<Head(s)>> \o Head(rest) >> \o Tail(rest)

\* line.trim().length > 0
NonBlank(line) == \E i \in 1..Len(line) : line[i] \notin Whitespace

\* mutant of SplitLines: blank lines are kept
SplitLines_keepBlank(content) == Split(content)

\* content.split('\n').filter(line => line.trim().length > 0)
SplitLines(content) == SelectSeq(Split(content), NonBlank)

StatusEv(status, pid) ==
  [kind |-> "status", status |-> status, code |-> pid, line |-> NoLine]
OutputEv(line) ==
  [kind |-> "output", status |-> NONE, code |-> NoCode, line |-> line]
CompleteEv(exitCode, status) ==
  [kind |-> "complete", status |-> status, code |-> exitCode, line |-> NoLine]

notifyStatus(S, c, status, pid) ==
  [S EXCEPT !.events[c] = Append(@, StatusEv(status, pid))]

notifyComplete(S, c, exitCode, status) ==
  [S EXCEPT !.events[c] = Append(@, CompleteEv(exitCode, status))]

\* mutant of addOutput: the lines are stored and no output event is delivered
addOutput_unnotified(S, c, content, type) ==
  IF c \notin S.commands THEN S
  ELSE LET lines == SplitLines(content)
           out == [i \in 1..Len(lines) |-> [content |-> lines[i], type |-> type]]
       IN  [S EXCEPT !.cmd[c].output = @ \o out]

\* addOutput: for every line, command.output.push(line) and then the output
\* callback, before the next line is taken
addOutput(S, c, content, type) ==
  IF c \notin S.commands THEN S
  ELSE LET lines == SplitLines(content)
           out == [i \in 1..Len(lines) |-> [content |-> lines[i], type |-> type]]
           evs == [i \in 1..Len(lines) |-> OutputEv(out[i])]
       IN  [S EXCEPT !.cmd[c].output = @ \o out, !.events[c] = @ \o evs]

clearTimeout(S, c) ==
  IF S.timeout[c] = "armed" THEN [S EXCEPT !.timeout[c] = "cleared"] ELSE S


\* childProcess.pid of the process spawned for command c
Pid(c) == c

\* ------------------------------------------------- listeners and timers
\* childProcess.on('error', ...)
onError(S, c, msg) ==
  IF S.isCompleted[c] THEN S
  ELSE LET S1 == clearTimeout([S EXCEPT !.isCompleted[c] = TRUE], c)
           S2 == [S1 EXCEPT !.cmd[c].status = FAILED, !.cmd[c].ended = TRUE]
           S3 == addOutput(S2, c, msg, "stderr")
           S4 == notifyComplete(S3, c, 1, FAILED)
       IN  [S4 EXCEPT !.processes = @ \ {c}]

\* mutant of ExitStatus: the test for exit code 0 is missing
ExitStatus_noZeroTest(exitCode, signal) ==
  IF signal = SIGTERM \/ signal = SIGKILL THEN STOPPED ELSE FAILED

\* the status the 'exit' listener derives from (exitCode, signal)
ExitStatus(exitCode, signal) ==
  IF signal = SIGTERM \/ signal = SIGKILL THEN STOPPED
  ELSE IF exitCode = 0 THEN COMPLETED
  ELSE FAILED

\* mutant of ExitCodeOf: every nonzero code is reported as 1
ExitCodeOf_flattened(code, signal) ==
  IF code = 0 THEN 0 ELSE IF code # NoCode \/ signal # NoSignal THEN 1 ELSE 0

\* const exitCode = code ?? (signal ? 1 : 0)
ExitCodeOf(code, signal) ==
  IF code # NoCode THEN code ELSE IF signal # NoSignal THEN 1 ELSE 0

\* mutant of onExit: the isCompleted guard is missing
onExit_noGuard(S, c, code, signal) ==
  LET exitCode == ExitCodeOf(code, signal)
      status == ExitStatus(exitCode, signal)
      S1 == clearTimeout([S EXCEPT !.isCompleted[c] = TRUE], c)
      S2 == [S1 EXCEPT !.cmd[c].exitCode = exitCode,
                       !.cmd[c].ended = TRUE,
                       !.cmd[c].status = status]
      S3 == notifyComplete(S2, c, exitCode, status)
  IN  [S3 EXCEPT !.processes = @ \ {c}]

\* mutant of onExit: the process table is cleared, not only the entry of c
onExit_clearsTable(S, c, code, signal) ==
  IF S.isCompleted[c] THEN S
  ELSE LET exitCode == ExitCodeOf(code, signal)
           status == ExitStatus(exitCode, signal)
           S1 == clearTimeout([S EXCEPT !.isCompleted[c] = TRUE], c)
           S2 == [S1 EXCEPT !.cmd[c].exitCode = exitCode,
                            !.cmd[c].ended = TRUE,
                            !.cmd[c].status = status]
           S3 == notifyComplete(S2, c, exitCode, status)
       IN  [S3 EXCEPT !.processes = {}]

\* childProcess.on('exit', (code, signal) => ...)
onExit(S, c, code, signal) ==
  IF S.isCompleted[c] THEN S
  ELSE LET exitCode == ExitCodeOf(code, signal)
           status == ExitStatus(exitCode, signal)
           S1 == clearTimeout([S EXCEPT !.isCompleted[c] = TRUE], c)
           S2 == [S1 EXCEPT !.cmd[c].exitCode = exitCode,
                            !.cmd[c].ended = TRUE,
                            !.cmd[c].status = status]
           S3 == notifyComplete(S2, c, exitCode, status)
       IN  [S3 EXCEPT !.processes = @ \ {c}]

\* ChildProcess.kill(sig), called by the supervisor from `by`.  On a live
\* process the signal is delivered (ok) or the system call fails, and then
\* kill() emits 'error' before it returns; on a process that is gone or was
\* never started kill() returns false.
kill(S, c, sig, by, ok) ==
  LET S1 == [S EXCEPT !.kills[c] = @ \cup {[sig |-> sig, by |-> by]},
                      !.forced[c] = IF by = "escalation" THEN @ + 1 ELSE @]
  IN  IF S.proc[c].state # "alive" THEN S1
      ELSE IF ok THEN [S1 EXCEPT !.proc[c].delivered = @ \cup {sig}]
      ELSE onError(S1, c, KillErrMsg)

\* mutant of onTimeout: isCompleted is not set
onTimeout_noFlag(S, c, ok) ==
  LET S0 == [S EXCEPT !.timeout[c] = "fired"]
  IN  IF S0.isCompleted[c] THEN S0
      ELSE LET S1 == kill(S0, c, SIGKILL, "failsafe", ok)
               S2 == [S1 EXCEPT !.cmd[c].status = FAILED, !.cmd[c].ended = TRUE]
               S3 == addOutput(S2, c, TimeoutMsg, "stderr")
               S4 == notifyComplete(S3, c, 1, FAILED)
           IN  [S4 EXCEPT !.processes = @ \ {c}]

\* mutant of onTimeout: this.processes.delete(commandId) is missing
onTimeout_keepsEntry(S, c, ok) ==
  LET S0 == [S EXCEPT !.timeout[c] = "fired"]
  IN  IF S0.isCompleted[c] THEN S0
      ELSE LET S1 == kill(S0, c, SIGKILL, "failsafe", ok)
               S2 == [S1 EXCEPT !.cmd[c].status = FAILED, !.cmd[c].ended = TRUE]
               S3 == addOutput(S2, c, TimeoutMsg, "stderr")
               S4 == notifyComplete(S3, c, 1, FAILED)
           IN  [S4 EXCEPT !.processes = IF ok THEN S.processes ELSE @,
                          !.isCompleted[c] = TRUE]

\* the fail-safe setTimeout callback
onTimeout(S, c, ok) ==
  LET S0 == [S EXCEPT !.timeout[c] = "fired"]
  IN  IF S0.isCompleted[c] THEN S0
      ELSE LET S1 == kill(S0, c, SIGKILL, "failsafe", ok)
               S2 == [S1 EXCEPT !.cmd[c].status = FAILED, !.cmd[c].ended = TRUE]
               S3 == addOutput(S2, c, TimeoutMsg, "stderr")
               S4 == notifyComplete(S3, c, 1, FAILED)
           IN  [S4 EXCEPT !.processes = @ \ {c}, !.isCompleted[c] = TRUE]

\* mutant of executeInBackground: the fail-safe timer is not armed
executeInBackground_noTimer(S, c, spawned) ==
  LET pid == IF spawned THEN Pid(c) ELSE NoPid
      S1 == [S EXCEPT !.proc[c].state = IF spawned THEN "alive" ELSE "spawnfail",
                      !.processes = @ \cup {c},
                      !.cmd[c].status = RUNNING,
                      !.cmd[c].pid = pid]
  IN  notifyStatus(S1, c, RUNNING, pid)

\* executeInBackground: spawn and everything after it, up to the return
executeInBackground(S, c, spawned) ==
  LET pid == IF spawned THEN Pid(c) ELSE NoPid
      S1 == [S EXCEPT !.proc[c].state = IF spawned THEN "alive" ELSE "spawnfail",
                      !.processes = @ \cup {c},
                      !.cmd[c].status = RUNNING,
                      !.cmd[c].pid = pid]
      S2 == notifyStatus(S1, c, RUNNING, pid)
  IN  [S2 EXCEPT !.timeout[c] = "armed"]

\* mutant of executeInMainTerminal: the Running status is not notified
executeInMainTerminal_silent(S, c) ==
  LET S1 == [S EXCEPT !.terminal = "open", !.cmd[c].status = RUNNING]
  IN  [S1 EXCEPT !.visTimer[c] = "armed"]

\* executeInMainTerminal, when createTerminal/show/sendText do not throw
executeInMainTerminal(S, c) ==
  LET S1 == [S EXCEPT !.terminal = "open", !.cmd[c].status = RUNNING]
      S2 == notifyStatus(S1, c, RUNNING, NoPid)
  IN  [S2 EXCEPT !.visTimer[c] = "armed"]

\* ---------------------------------------------------------------- actions
SpawnOutcomes == {"ok", "error", "throw"}

\* executeCommand up to its await: outcome is what spawn (or the terminal
\* API) does: "ok", "throw" (the promise rejects) or, for spawn only,
\* "error" (a child without pid whose 'error' event is still to come).
\* mutant of executeCommand: a safe command for the visible terminal is
\* recorded as moderate
executeCommand_riskByLocation(S, command, loc, outcome) ==
  LET c == S.nextId
      risk == assessCommandRisk(command)
      S0 == [S EXCEPT !.nextId = @ + 1,
                      !.commands = @ \cup {c},
                      !.cmd[c] = [NoCommand EXCEPT
                                    !.status = PENDING,
                                    !.location = loc,
                                    !.command = command,
                                    !.riskLevel = IF loc = MAIN /\ risk = SAFE
                                                  THEN MODERATE ELSE risk]]
  IN  IF outcome = "throw" THEN [S0 EXCEPT !.rejected[c] = TRUE]
      ELSE IF loc = CHAT THEN executeInBackground(S0, c, outcome = "ok")
      ELSE executeInMainTerminal(S0, c)

executeCommand(S, command, loc, outcome) ==
  LET c == S.nextId
      S0 == [S EXCEPT !.nextId = @ + 1,
                      !.commands = @ \cup {c},
                      !.cmd[c] = [NoCommand EXCEPT
                                    !.status = PENDING,
                                    !.location = loc,
                                    !.command = command,
                                    !.riskLevel = assessCommandRisk(command)]]
  IN  IF outcome = "throw" THEN [S0 EXCEPT !.rejected[c] = TRUE]
      ELSE IF loc = CHAT THEN executeInBackground(S0, c, outcome = "ok")
      ELSE executeInMainTerminal(S0, c)

\* a call of TerminalManager.executeCommand with the given command text
ExecuteText(command, loc, outcome) ==
  /\ nextId <= MaxCmds
  /\ loc = MAIN => outcome # "error"
  /\ Apply(executeCommand(St, command, loc, outcome))

\* a call of TerminalManager.executeCommand
ExecuteCommand(loc, outcome) == ExecuteText(PlainCommand, loc, outcome)

\* executeCommand after its await, when the promise was rejected (catch)
CatchError(c) ==
  /\ rejected[c]
  /\ LET S1 == [St EXCEPT !.rejected[c] = FALSE,
                          !.cmd[c].status = FAILED,
                          !.cmd[c].ended = TRUE]
     IN  Apply(notifyComplete(S1, c, 1, FAILED))

\* the 'error' event of a child that could not be spawned
SpawnErrorEvent(c) ==
  /\ proc[c].state = "spawnfail"
  /\ Apply(onError([St EXCEPT !.proc[c].state = "failed"], c, SpawnErrMsg))

\* the process ends and the 'exit' event is delivered: it exits with a code,
\* or it is terminated by a signal (one of the supervisor's or anyone else's)
ExitEvent(c, code, signal) ==
  /\ proc[c].state = "alive"
  /\ (code = NoCode) # (signal = NoSignal)
  /\ Apply(onExit([St EXCEPT !.proc[c].state = "exited",
                             !.proc[c].code = code,
                             !.proc[c].signal = signal], c, code, signal))

\* a 'data' event of stdout or stderr; the streams outlive the 'exit' event
DataEvent(c, chunk, type) ==
  /\ proc[c].state \in {"alive", "exited"}
  /\ budget.data > 0
  /\ Apply(addOutput([St EXCEPT !.budget.data = @ - 1,
                                !.arrived[c] = Append(@, [chunk |-> chunk,
                                                          type |-> type])],
                     c, chunk, type))

\* the fail-safe timer fires
FailSafeTimeout(c, ok) ==
  /\ timeout[c] = "armed"
  /\ Apply(onTimeout(St, c, ok))

\* mutant of MainTerminalTimer: a command that left the registry is skipped
MainTerminalTimer_registeredOnly(c) ==
  /\ visTimer[c] = "armed"
  /\ LET S0 == [St EXCEPT !.visTimer[c] = "fired"]
         S1 == [S0 EXCEPT !.cmd[c].status = COMPLETED, !.cmd[c].ended = TRUE]
     IN  Apply(IF c \in commands THEN notifyComplete(S1, c, 0, COMPLETED)
               ELSE S0)

\* the delay timer of executeInMainTerminal fires
MainTerminalTimer(c) ==
  /\ visTimer[c] = "armed"
  /\ LET S1 == [St EXCEPT !.visTimer[c] = "fired",
                          !.cmd[c].status = COMPLETED,
                          !.cmd[c].ended = TRUE]
     IN  Apply(notifyComplete(S1, c, 0, COMPLETED))

\* mutant of stopCommand: the force-kill timer is armed before the status
\* is tested
stopCommand_timerFirst(S, c, ok) ==
  IF c \notin S.commands THEN [st |-> S, value |-> FALSE]
  ELSE LET S1 == [S EXCEPT !.escalation[c] = @ + 1]
       IN  IF S.cmd[c].status # RUNNING THEN [st |-> S1, value |-> FALSE]
           ELSE IF c \in S.processes
                THEN [st |-> kill(S1, c, SIGTERM, "stop", ok), value |-> TRUE]
           ELSE [st |-> S, value |-> FALSE]

\* stopCommand(commandId): the state it leaves and the value it returns
stopCommand(S, c, ok) ==
  IF c \notin S.commands THEN [st |-> S, value |-> FALSE]
  ELSE IF S.cmd[c].status # RUNNING THEN [st |-> S, value |-> FALSE]
  ELSE IF c \in S.processes
       THEN [st |-> [kill(S, c, SIGTERM, "stop", ok)
                       EXCEPT !.escalation[c] = @ + 1],
             value |-> TRUE]
  ELSE [st |-> S, value |-> FALSE]

\* stopCommand(commandId) when it gets as far as the process table
StopCommand(c, ok) ==
  /\ budget.stops > 0
  /\ LET r == stopCommand([St EXCEPT !.budget.stops = @ - 1], c, ok)
     IN  r.value /\ Apply(r.st)

\* stopCommand(commandId) when it returns false
StopCommandRefused(c) ==
  /\ ~stopCommand(St, c, TRUE).value
  /\ Apply(stopCommand(St, c, TRUE).st)

\* mutant of EscalationTimer: the timer does not consult the process table
EscalationTimer_unconditional(c, ok) ==
  /\ escalation[c] > 0
  /\ LET S1 == [St EXCEPT !.escalation[c] = @ - 1]
     IN  Apply(kill(S1, c, SIGKILL, "escalation", ok))

\* the force-kill timer of stopCommand fires
EscalationTimer(c, ok) ==
  /\ escalation[c] > 0
  /\ LET S1 == [St EXCEPT !.escalation[c] = @ - 1]
     IN  Apply(IF c \in processes THEN kill(S1, c, SIGKILL, "escalation", ok)
               ELSE S1)

\* mutant of clearCompleted: every command that is not Running is removed
clearCompleted_notRunning ==
  /\ \E c \in commands : cmd[c].status # RUNNING
  /\ commands' = {c \in commands : cmd[c].status = RUNNING}
  /\ UNCHANGED << cmd, processes, terminal, isCompleted, timeout, escalation,
                  visTimer, rejected, proc, events, kills, nextId, budget,
                  arrived, stopResult, denied, execTerminal, forced,
                  resolverVars, clientVars >>

clearCompleted ==
  /\ \E c \in commands : cmd[c].status \in TerminalStatuses
  /\ commands' = {c \in commands : cmd[c].status \notin TerminalStatuses}
  /\ UNCHANGED << cmd, processes, terminal, isCompleted, timeout, escalation,
                  visTimer, rejected, proc, events, kills, nextId, budget,
                  arrived, stopResult, denied, execTerminal, forced,
                  resolverVars, clientVars >>

\* process.kill('SIGTERM') for every entry of this.processes, in map order
RECURSIVE killAll(_, _, _)
killAll(S, todo, fails) ==
  IF todo = {} THEN S
  ELSE LET c == CHOOSE x \in todo : \A y \in todo : x <= y
       IN  killAll(kill(S, c, SIGTERM, "dispose", c \notin fails),
                   todo \ {c}, fails)

\* mutant of disposeAll: this.commands.clear() is missing
disposeAll_keepsRegistry(S, fails) ==
  LET S1 == killAll(S, S.processes, fails)
  IN  [S1 EXCEPT !.processes = {}, !.terminal = "absent"]

\* dispose(), as a function of the state; fails are the processes whose
\* kill() fails
disposeAll(S, fails) ==
  LET S1 == killAll(S, S.processes, fails)
  IN  [S1 EXCEPT !.processes = {}, !.terminal = "absent", !.commands = {}]

dispose(fails) ==
  /\ fails \subseteq processes
  /\ Apply(disposeAll(St, fails))

\* the user closes the visible terminal (terminal.exitStatus becomes set)
TerminalClosed ==
  /\ terminal = "open"
  /\ terminal' = "exited"
  /\ UNCHANGED << commands, cmd, processes, isCompleted, timeout, escalation,
                  visTimer, rejected, proc, events, kills, nextId, budget,
                  arrived, stopResult, denied, execTerminal, forced,
                  resolverVars, clientVars >>

\* every step but the data events: the steps that can change a status, a
\* timer, the registry, the process table or a process
Lifecycle ==
  \/ \E loc \in Locations, outcome \in SpawnOutcomes : ExecuteCommand(loc, outcome)
  \/ \E c \in Ids : CatchError(c)
  \/ \E c \in Ids : SpawnErrorEvent(c)
  \/ \E c \in Ids, code \in ExitCodes \cup {NoCode}, signal \in Signals \cup {NoSignal} :
        ExitEvent(c, code, signal)
  \/ \E c \in Ids, ok \in BOOLEAN : FailSafeTimeout(c, ok)
  \/ \E c \in Ids : MainTerminalTimer(c)
  \/ \E c \in Ids, ok \in BOOLEAN : StopCommand(c, ok)
  \/ \E c \in Ids : StopCommandRefused(c)
  \/ \E c \in Ids, ok \in BOOLEAN : EscalationTimer(c, ok)
  \/ clearCompleted
  \/ \E fails \in SUBSET Ids : dispose(fails)
  \/ TerminalClosed

Next ==
  \/ Lifecycle
  \/ \E c \in Ids, chunk \in Chunks, type \in Streams : DataEvent(c, chunk, type)

Spec == Init /\ [][Next]_vars

\* The specification of the liveness claims.  setTimeout timers that are due
\* are run by the event loop, so the fail-safe callback of a command is not
\* postponed forever (weak fairness); nothing else is assumed of the
\* processes or of the caller.  Data events are left out: addOutput changes
\* only the output of a command and the output events.
FairSpec ==
  /\ Init
  /\ [][Lifecycle]_vars
  /\ \A c \in Ids : WF_vars(\E ok \in BOOLEAN : FailSafeTimeout(c, ok))

\* Background commands that are stopped more than once: the steps of a
\* background process, stopCommand and its timers, and dispose.
StopNext ==
  \/ \E outcome \in SpawnOutcomes : ExecuteCommand(CHAT, outcome)
  \/ \E c \in Ids : CatchError(c)
  \/ \E c \in Ids : SpawnErrorEvent(c)
  \/ \E c \in Ids, code \in ExitCodes \cup {NoCode}, signal \in Signals \cup {NoSignal} :
        ExitEvent(c, code, signal)
  \/ \E c \in Ids, ok \in BOOLEAN : FailSafeTimeout(c, ok)
  \/ \E c \in Ids, ok \in BOOLEAN : StopCommand(c, ok)
  \/ \E c \in Ids, ok \in BOOLEAN : EscalationTimer(c, ok)
  \/ \E fails \in SUBSET Ids : dispose(fails)

StopSpec == Start(0, MaxStops + 1) /\ [][StopNext]_vars

\* ------------------------------------------------ CommandResolver, steps
\* await commandResolver.resolveCommand(input)
ResolveCommand(input, stackInfo) ==
  \E r \in {resolveCommand(input, stackInfo, scriptsCache, workspaceRoot, now)} :
      /\ resolved' =
           [done |-> TRUE, input |-> input, stackInfo |-> stackInfo,
            root |-> workspaceRoot, result |-> r.result,
            lookup |-> IF r.called
                       THEN [called |-> TRUE, root |-> workspaceRoot,
                             at |-> now, read |-> r.L.read,
                             scripts |-> r.L.scripts, entry |-> scriptsCache]
                       ELSE NoLookup]
      /\ scriptsCache' = IF r.called THEN r.L.cache ELSE scriptsCache
      /\ UNCHANGED << now, workspaceRoot, supervisorVars, clientVars >>

\* the instants at which the clock is read
Instants == {0, CACHE_TTL - 1, CACHE_TTL, 2 * CACHE_TTL}

\* time passes
Tick(instant) ==
  /\ instant > now
  /\ now' = instant
  /\ UNCHANGED << scriptsCache, workspaceRoot, resolved, supervisorVars,
                  clientVars >>

\* the window's first workspace folder changes
OpenWorkspace(root) ==
  /\ root # workspaceRoot
  /\ workspaceRoot' = root
  /\ UNCHANGED << scriptsCache, now, resolved, supervisorVars, clientVars >>

\* ------------------------------------- useTerminal, handleMessage (part_003)
\* the ids the store has a command for
Present(cs) == {id \in Ids : cs[id].present}

SetStore(cs) ==
  /\ webview' = [webview EXCEPT !.commands = cs]
  /\ UNCHANGED << supervisorVars, resolverVars, manager >>

\* React renders useTerminal again: the effect subscribes a handleMessage
\* that closes over the commands of the store as they are now
Render ==
  /\ webview.rendered # Present(webview.commands)
  /\ webview' = [webview EXCEPT !.rendered = Present(webview.commands)]
  /\ UNCHANGED << supervisorVars, resolverVars, manager >>

\* useTerminal.executeCommand: the optimistic entry, under an id made here
WebviewExecuteCommand(id) ==
  /\ id \notin Present(webview.commands)
  /\ SetStore(StoreAddCommand(webview.commands, id, Entry("ls", PENDING, <<>>)))

\* case 'terminalCommandStarted'
TerminalCommandStarted(id, success) ==
  /\ id \in Ids
  /\ SetStore(IF success THEN webview.commands
              ELSE StoreUpdateCommand(webview.commands, id, FAILED))

\* case 'terminalOutput'
TerminalOutput(id, line) ==
  /\ Len(webview.commands[id].output) < MaxLines
  /\ SetStore(StoreAddOutput(webview.commands, id, line))

\* case 'terminalStatus'.  The handler calls commands.has(message.commandId)
\* on the commands of its closure.  The store of part_004 keeps a Record,
\* on which has is not a function: the call throws and the handler ends
\* (typeError).  UseTerminalReturn declares commands as a Map; for a Map the
\* test is membership in the commands of the last render.
TerminalStatus(id, status, typeError) ==
  /\ id \in Ids
  /\ SetStore(IF typeError THEN webview.commands
              ELSE IF id \notin webview.rendered
              THEN StoreAddCommand(webview.commands, id, Entry("", status, <<>>))
              ELSE StoreUpdateCommand(webview.commands, id, status))

\* case 'terminalComplete'
TerminalComplete(id, status) ==
  /\ status \in TerminalStatuses
  /\ SetStore(StoreUpdateCommand(webview.commands, id, status))

\* case 'terminalCommandStopped'
TerminalCommandStopped(id) ==
  /\ id \in Ids
  /\ SetStore(StoreUpdateCommand(webview.commands, id, STOPPED))

\* case 'runningCommands': addCommand(cmd) for every command of the message;
\* each carries the output it had in the extension when the message was made
RunningCommands(ids, outputs) ==
  /\ ids # {}
  /\ SetStore([id \in Ids |->
                IF id \in ids THEN Entry("ls", RUNNING, outputs[id])
                ELSE webview.commands[id]])

\* clearCompletedCommands
WebviewClearCompleted ==
  /\ \E id \in Ids : webview.commands[id].status \in TerminalStatuses
  /\ SetStore(StoreClearCompleted(webview.commands))

StoreNext ==
  \/ Render
  \/ \E id \in Ids : WebviewExecuteCommand(id)
  \/ \E id \in Ids, success \in BOOLEAN : TerminalCommandStarted(id, success)
  \/ \E id \in Ids, line \in Lines : TerminalOutput(id, line)
  \/ \E id \in Ids, status \in {RUNNING}, typeError \in BOOLEAN :
        TerminalStatus(id, status, typeError)
  \/ \E id \in Ids, status \in TerminalStatuses : TerminalComplete(id, status)
  \/ \E id \in Ids : TerminalCommandStopped(id)
  \/ \E ids \in SUBSET Ids : \E outputs \in [ids -> Outputs] :
        RunningCommands(ids, outputs)
  \/ WebviewClearCompleted

StoreSpec == Init /\ [][StoreNext]_vars

\* ------------------------------------------------ ProcessManager, calls
SetManager(M, call) ==
  /\ manager' = [M EXCEPT !.last = call]
  /\ UNCHANGED << supervisorVars, resolverVars, webview >>

\* register(id, proc) with a ManagedProcess made for this call
Register(id) ==
  /\ manager.created < MaxProcs
  /\ SetManager(register([manager EXCEPT !.created = @ + 1], id,
                         manager.created + 1), "register")

\* remove(id), called from outside; the process it takes out of the table,
\* if any, counts as explicitly removed
Remove(id) ==
  /\ id \in Keys
  /\ SetManager(remove([manager EXCEPT !.removed =
                          @ \cup {en.proc : en \in Get(manager.processes, id)}],
                       id), "remove")

Stop(id) ==
  /\ id \in Keys
  /\ SetManager(stop(manager, id), "stop")

StopAll ==
  /\ manager.last # "stopAll"
  /\ SetManager(stopAll(manager), "stopAll")

ManagerNext ==
  \/ \E id \in Keys : Register(id)
  \/ \E id \in Keys : Remove(id)
  \/ \E id \in Keys : Stop(id)
  \/ StopAll

ManagerSpec == Init /\ [][ManagerNext]_vars

\* ------------------------------------------- TerminalExecutor (part_002)
\* what the permission gate answers; "none": no PermissionEngine is set
Decisions == {"allow", "deny"}
Gates == Decisions \cup {"none"}

\* mutant of ExecuteCommandWithBackground: a denial is logged and the throw
\* is missing
ExecuteCommandWithBackground_warnOnly(gate, loc, outcome) ==
  IF gate = "deny"
  THEN /\ denied < MaxDenials
       /\ nextId <= MaxCmds
       /\ loc = MAIN => outcome # "error"
       /\ Apply(executeCommand([St EXCEPT !.denied = @ + 1], PlainCommand,
                                  loc, outcome))
  ELSE ExecuteCommand(loc, outcome)

\* executeCommandWithBackground: the gate, then TerminalManager.executeCommand
ExecuteCommandWithBackground(gate, loc, outcome) ==
  IF gate = "deny"
  THEN /\ denied < MaxDenials
       /\ Apply([St EXCEPT !.denied = @ + 1])
  ELSE ExecuteCommand(loc, outcome)

\* the legacy executeCommand: the gate, then runCommand on its own terminal
LegacyExecuteCommand(gate) ==
  IF gate = "deny"
  THEN /\ denied < MaxDenials
       /\ Apply([St EXCEPT !.denied = @ + 1])
  ELSE Apply([St EXCEPT !.execTerminal = "open"])

\* TerminalExecutor.stopCommand: the caller sees what stopCommand returns
ExecutorStopCommand(c, ok) ==
  /\ budget.stops > 0
  /\ LET r == stopCommand([St EXCEPT !.budget.stops = @ - 1], c, ok)
     IN  Apply([r.st EXCEPT !.stopResult = [id |-> c, value |-> r.value]])

disposeTerminal(fails) ==
  /\ fails \subseteq processes
  /\ Apply([disposeAll(St, fails) EXCEPT !.execTerminal = "absent"])

\* the supervisor driven through TerminalExecutor
ExecutorNext ==
  \/ \E gate \in Gates, loc \in Locations, outcome \in SpawnOutcomes :
        ExecuteCommandWithBackground(gate, loc, outcome)
  \/ \E gate \in Gates : LegacyExecuteCommand(gate)
  \/ \E c \in Ids, ok \in BOOLEAN : ExecutorStopCommand(c, ok)
  \/ \E fails \in SUBSET Ids : disposeTerminal(fails)
  \/ \E c \in Ids : CatchError(c)
  \/ \E c \in Ids : SpawnErrorEvent(c)
  \/ \E c \in Ids, code \in ExitCodes \cup {NoCode}, signal \in Signals \cup {NoSignal} :
        ExitEvent(c, code, signal)
  \/ \E c \in Ids, ok \in BOOLEAN : FailSafeTimeout(c, ok)
  \/ \E c \in Ids : MainTerminalTimer(c)
  \/ \E c \in Ids, ok \in BOOLEAN : EscalationTimer(c, ok)
  \/ TerminalClosed

ExecutorSpec == Init /\ [][ExecutorNext]_vars

\* ------------------------------------------------ the streams of a command
Alphabet == {"a", "b", " ", NL}
\* the chunk "a\nb\n"
ExampleChunk == <<"a", NL, "b", NL>>
\* every chunk of at most MaxChunkLen characters, and the two chunks above
InputChunks ==
  UNION { [1..k -> Alphabet] : k \in 0..MaxChunkLen } \cup Chunks \cup {ExampleChunk}

OutputNext ==
  \/ ExecuteCommand(CHAT, "ok")
  \/ \E c \in Ids, chunk \in InputChunks, type \in Streams : DataEvent(c, chunk, type)

\* commands that run while their streams deliver MaxArrivals chunks
OutputSpec == Start(MaxArrivals, MaxStops) /\ [][OutputNext]_vars

\* ------------------------------------------------ the texts of commands
RECURSIVE Flatten(_)
Flatten(ps) == IF ps = <<>> THEN <<>> ELSE Head(ps) \o Flatten(Tail(ps))

\* every text made of at most n of the given pieces
TextsOf(pieces, n) ==
  { Flatten(ps) : ps \in UNION { [1..k -> pieces] : k \in 0..n } }

RiskPieces ==
  { <<"r", "m">>,
    <<"R", "M">>,
    <<" ">>,
    <<"\t">>,
    <<"-", "r", "f">>,
    <<"S", "u", "D", "o">>,
    <<"d", "d">>,
    <<"I", "F", "=">>,
    <<"x">> }

RiskInputs == TextsOf(RiskPieces, MaxPieces)

\* one submission of any of the texts
ClassifierNext ==
  \E command \in RiskInputs : nextId = 1 /\ ExecuteText(command, CHAT, "ok")

ClassifierSpec == Init /\ [][ClassifierNext]_vars

\* the texts submitted where the life of the command matters
RiskTexts == { PlainCommand, <<"s", "u", "d", "o", " ", "l", "s">> }

\* submissions of these texts and everything that can happen to a command
SubmitNext ==
  \/ \E command \in RiskTexts, loc \in Locations, outcome \in SpawnOutcomes :
        ExecuteText(command, loc, outcome)
  \/ \E c \in Ids : CatchError(c)
  \/ \E c \in Ids : SpawnErrorEvent(c)
  \/ \E c \in Ids, code \in ExitCodes \cup {NoCode}, signal \in Signals \cup {NoSignal} :
        ExitEvent(c, code, signal)
  \/ \E c \in Ids, chunk \in Chunks, type \in Streams : DataEvent(c, chunk, type)
  \/ \E c \in Ids, ok \in BOOLEAN : FailSafeTimeout(c, ok)
  \/ \E c \in Ids : MainTerminalTimer(c)
  \/ \E c \in Ids, ok \in BOOLEAN : StopCommand(c, ok)
  \/ \E c \in Ids, ok \in BOOLEAN : EscalationTimer(c, ok)

SubmitSpec == Init /\ [][SubmitNext]_vars

\* Inputs of resolveCommand: a verb, then possibly an object word, then
\* possibly an argument, separated by single spaces.
Verbs ==
  { <<"d", "e", "l", "e", "t", "e">>, <<"r", "e", "m", "o", "v", "e">>, <<"r", "u", "n">>, <<"s", "h", "o", "w">>, <<"c", "r", "e", "a", "t", "e">>, <<"e", "d", "i", "t">>, <<"m", "v">>, <<"c", "p">>, <<"f", "i", "n", "d">>,
    <<"m", "k", "d", "i", "r">>, <<"t", "o", "u", "c", "h">>, <<"i", "n", "s", "t", "a", "l", "l">>, <<" ", " ", "L", "S">> }
Objects == { <<"f", "i", "l", "e">>, <<"f", "i", "l", "e", "s">>, <<"f", "o", "l", "d", "e", "r">>, <<"b", "u", "i", "l", "d">>, <<"t", "e", "s", "t">>, <<"l", "i", "n", "t">> }
Arguments == { <<"c", "o", "n", "f", "i", "g", ".", "j", "s", "o", "n">>, <<"s", "e", "r", "v", "e", "r", ".", "j", "s">>, <<"b", "u", "i", "l", "d">>, <<"x", " ", "t", "o", " ", "y">>, <<"-", "L", "a", "\t">> }
ResolverInputs ==
  Verbs
  \cup { v \o <<" ">> \o o : v \in Verbs, o \in Objects \cup Arguments }
  \cup { v \o <<" ">> \o o \o <<" ">> \o a :
           v \in Verbs, o \in Objects, a \in Arguments }
ResolverStacks ==
  { [primary |-> "node", packageManager |-> <<"y", "a", "r", "n">>],
    [primary |-> "python", packageManager |-> <<>>] }

\* one resolution, of any input, in any workspace folder
ResolverNext ==
  /\ ~resolved.done
  /\ \/ \E root \in Roots \cup {NoRoot} : OpenWorkspace(root)
     \/ \E input \in ResolverInputs, stackInfo \in ResolverStacks :
          ResolveCommand(input, stackInfo)

ResolverSpec == Init /\ [][ResolverNext]_vars

\* Shell commands typed as they are: one for each pattern of the supervisor's
\* dangerous list, and some that only the resolver's list names.
ShellCommands ==
  { <<"r", "m", " ", "-", "r", "f", " ", "x">>,
    <<"r", "m", " ", "-", "f", "r", " ", "x">>,
    <<"s", "u", "d", "o", " ", "l", "s">>,
    <<"c", "h", "m", "o", "d", " ", "7", "7", "7", " ", "x">>,
    <<"s", "h", "u", "t", "d", "o", "w", "n", " ", "n", "o", "w">>,
    <<"r", "e", "b", "o", "o", "t">>,
    <<"m", "k", "f", "s", " ", "x">>,
    <<"d", "d", " ", "i", "f", "=", "x">>,
    <<":", "(", ")", "{">>,
    <<">", "/", "d", "e", "v", "/", "s", "d", "a">>,
    <<"c", "u", "r", "l", " ", "x", " ", "|", " ", "s", "h">>,
    <<"w", "g", "e", "t", " ", "x", "|", "s", "h">>,
    <<"R", "E", "B", "O", "O", "T">>,
    <<"l", "s">>,
    <<"D", "R", "O", "P", " ", "D", "A", "T", "A", "B", "A", "S", "E", " ", "x">>,
    <<" ", ">", " ", "/", "d", "e", "v", "/", "n", "u", "l", "l">> }

\* one resolution of a shell command, in any workspace folder
DangerNext ==
  /\ ~resolved.done
  /\ \/ \E root \in Roots \cup {NoRoot} : OpenWorkspace(root)
     \/ \E input \in ShellCommands, stackInfo \in ResolverStacks :
          ResolveCommand(input, stackInfo)

DangerSpec == Init /\ [][DangerNext]_vars

\* Inputs that name a script to run, present or absent, and some that do not.
ScriptInputs ==
  { <<"r", "u", "n", " ", "l", "i", "n", "t">>,
    <<"R", "U", "N", " ", "L", "i", "n", "t">>,
    <<"e", "x", "e", "c", "u", "t", "e", " ", "d", "e", "p", "l", "o", "y">>,
    <<"r", "u", "n", " ", "c", "o", "n", "s", "t", "r", "u", "c", "t", "o", "r">>,
    <<"e", "x", "e", "c", "u", "t", "e", " ", "_", "_", "p", "r", "o", "t", "o", "_", "_">>,
    <<"r", "u", "n">>,
    <<"l", "s">>,
    <<"r", "u", "n", " ", "b", "u", "i", "l", "d">>,
    <<"d", "e", "l", "e", "t", "e", " ", "r", "u", "n", " ", "x">>,
    <<"s", "t", "a", "r", "t">> }
ScriptStacks ==
  { [primary |-> "node", packageManager |-> <<"y", "a", "r", "n">>],
    [primary |-> "python", packageManager |-> <<>>],
    [primary |-> "php", packageManager |-> <<>>],
    [primary |-> "maven", packageManager |-> <<>>] }

\* one resolution of such an input, in any workspace folder
ScriptNext ==
  /\ ~resolved.done
  /\ \/ \E root \in Roots \cup {NoRoot} : OpenWorkspace(root)
     \/ \E input \in ScriptInputs, stackInfo \in ScriptStacks :
          ResolveCommand(input, stackInfo)

ScriptSpec == Init /\ [][ScriptNext]_vars

\* Resolutions that consult the scripts of package.json, at several
\* instants, in several workspace folders.
CacheInputs == { <<"r", "u", "n", " ", "b", "u", "i", "l", "d">>, <<"r", "u", "n", " ", "d", "e", "v">>, <<"r", "u", "n", " ", "t", "e", "s", "t">> }
CacheStacks ==
  { [primary |-> "node", packageManager |-> <<"y", "a", "r", "n">>],
    [primary |-> "maven", packageManager |-> <<>>],
    [primary |-> "python", packageManager |-> <<>>] }

CacheNext ==
  \/ \E input \in CacheInputs, stackInfo \in CacheStacks :
       ResolveCommand(input, stackInfo)
  \/ \E instant \in Instants : Tick(instant)
  \/ \E root \in Roots : OpenWorkspace(root)

CacheSpec == Init /\ [][CacheNext]_vars

\* ------------------------------------------------------------ observations
Completes(c) == SelectSeq(events[c], LAMBDA e : e.kind = "complete")
RunningEvents(c) ==
  SelectSeq(events[c], LAMBDA e : e.kind = "status" /\ e.status = RUNNING)
IsTerminal(c) == cmd[c].status \in TerminalStatuses
TimeoutLine == [content |-> TimeoutMsg, type |-> "stderr"]
TimeoutLines(c) == SelectSeq(cmd[c].output, LAMBDA l : l = TimeoutLine)
\* the child of command c has ended and its 'exit' event was delivered
Exited(c) == proc[c].state = "exited"
\* spawn gave no running process: it threw, or it returned a child without
\* pid whose 'error' event follows
SpawnFailed(c) ==
  /\ cmd[c].status # NONE
  /\ cmd[c].location = CHAT
  /\ proc[c].state \in {"none", "spawnfail", "failed"}

\* ------------------------------------------------------------------ claims

\* C1: for every command at most one terminal transition is recorded and the
\* complete event is delivered exactly once: never twice, and once as soon as
\* the status is Completed, Failed or Stopped.
C1_CompleteExactlyOnce ==
  \A c \in Ids :
    /\ Len(Completes(c)) <= 1
    /\ IsTerminal(c) => Len(Completes(c)) = 1

\* C2: once the status of a command is Completed, Failed or Stopped, no step
\* changes its output, its exitCode or its status.
C2_FrozenAfterTerminal ==
  [][\A c \in Ids :
       IsTerminal(c) =>
         /\ cmd'[c].output = cmd[c].output
         /\ cmd'[c].exitCode = cmd[c].exitCode
         /\ cmd'[c].status = cmd[c].status]_vars

\* the status changes the state machine allows; executeCommand creates the
\* command Pending and executeInBackground/executeInMainTerminal set it to
\* Running within the same call, so a step can show none -> running
AllowedTransitions ==
  { <<NONE, PENDING>>, <<NONE, RUNNING>>, <<PENDING, RUNNING>>,
    <<PENDING, FAILED>>, <<RUNNING, COMPLETED>>, <<RUNNING, FAILED>>,
    <<RUNNING, STOPPED>> }

\* C3: the status of a command only moves along Pending -> Running ->
\* {Completed, Failed, Stopped} or Pending -> Failed: it never goes back to
\* Pending or Running, Completed and Stopped are entered only from Running,
\* and a terminal status never changes.
C3_StatusOrder ==
  [][\A c \in Ids :
       cmd'[c].status # cmd[c].status =>
         <<cmd[c].status, cmd'[c].status>> \in AllowedTransitions]_vars

\* C3 witness: one command went Pending -> Failed on a spawn that threw, and
\* another went Running -> Stopped by stop, whose force-kill timer fired
\* after the exit event and changed nothing
C3_Witness ==
  \E c, d \in Ids :
    /\ cmd[c].status = FAILED /\ proc[c].state = "none" /\ ~rejected[c]
    /\ cmd[d].status = STOPPED
    /\ [sig |-> SIGTERM, by |-> "stop"] \in kills[d]
    /\ escalation[d] = 0

\* C4: a command whose status is Running has a spawned process and a known
\* pid.
C4_RunningHasPid ==
  \A c \in commands :
    cmd[c].status = RUNNING =>
      /\ cmd[c].pid # NoPid
      /\ proc[c].state \in {"alive", "exited"}

\* C5: a command whose process could not be started is never Running and no
\* Running status event is delivered for it.
C5_SpawnErrorNeverRunning ==
  \A c \in Ids :
    SpawnFailed(c) => cmd[c].status # RUNNING /\ RunningEvents(c) = <<>>

C7_EventuallyTerminal ==
  \A c \in Ids :
    (proc[c].state # "none") ~> (IsTerminal(c) /\ Completes(c) # <<>>)

\* C7 witness: the caller disposed the supervisor while the command ran, the
\* process ignored SIGTERM, and the fail-safe ended the command
C7_Witness ==
  \E c \in Ids :
    /\ [sig |-> SIGTERM, by |-> "dispose"] \in kills[c]
    /\ proc[c].state = "alive"
    /\ timeout[c] = "fired"
    /\ IsTerminal(c)

\* C8 as stated: every command whose process exited with code 0 is Completed
\* with exitCode 0.
C8_ExitZeroCompleted ==
  \A c \in Ids :
    (Exited(c) /\ proc[c].code = 0) =>
      cmd[c].status = COMPLETED /\ cmd[c].exitCode = 0

\* C8 amended: when the exit event with code 0 is handled before any
\* fail-safe timeout or error event of the command (isCompleted is still
\* false), the status becomes Completed with exitCode 0, and a Completed
\* command keeps its status and exitCode.
C8_ExitZeroHandledFirst ==
  [][\A c \in Ids :
       /\ (proc[c].state = "alive" /\ Exited(c)' /\ proc'[c].code = 0
             /\ ~isCompleted[c]) =>
            cmd'[c].status = COMPLETED /\ cmd'[c].exitCode = 0
       /\ cmd[c].status = COMPLETED =>
            cmd'[c].status = COMPLETED /\ cmd'[c].exitCode = cmd[c].exitCode]_vars

\* C8 witness: a process that got SIGTERM from stop, handled it and exited
\* with code 0, and the command is Completed with exitCode 0
C8_Witness ==
  \E c \in Ids :
    /\ Exited(c) /\ proc[c].code = 0
    /\ SIGTERM \in proc[c].delivered
    /\ cmd[c].status = COMPLETED /\ cmd[c].exitCode = 0

\* C9: every command whose process exited with a nonzero code and for which
\* the supervisor never called kill (no stop, no dispose, no fail-safe) is
\* Failed, its exitCode is that code, and its one complete event carries it.
C9_NonzeroExitFailed ==
  \A c \in Ids :
    (Exited(c) /\ proc[c].code \notin {NoCode, 0} /\ kills[c] = {}) =>
      /\ cmd[c].status = FAILED
      /\ cmd[c].exitCode = proc[c].code
      /\ Completes(c) = << CompleteEv(proc[c].code, FAILED) >>

C9_Witness ==
  \E c \in Ids :
    /\ Exited(c) /\ proc[c].code = 3 /\ kills[c] = {}
    /\ cmd[c].status = FAILED /\ cmd[c].exitCode = 3

\* C10: a command is Stopped only if its process was terminated by a signal
\* the supervisor had sent to it, and a process terminated by a signal the
\* supervisor did not send leaves the command Failed.
C10_StoppedOnlyBySupervisor ==
  \A c \in Ids :
    /\ cmd[c].status = STOPPED =>
         Exited(c) /\ proc[c].signal \in proc[c].delivered
    /\ (Exited(c) /\ proc[c].signal # NoSignal
          /\ proc[c].signal \notin proc[c].delivered) =>
         cmd[c].status = FAILED

\* the supervisor's stopCommand sent SIGTERM to the process of command c
StopSent(c) == [sig |-> SIGTERM, by |-> "stop"] \in kills[c]

\* C11: after stop(id) on a Running command whose graceful signal reached the
\* process, a process that exits within the grace window (the force-kill
\* timer is still armed), whether by the signal or by handling it and
\* exiting with a code, leaves the command in status Stopped.
C11_StopLeadsToStopped ==
  \A c \in Ids :
    ( /\ StopSent(c)
      /\ SIGTERM \in proc[c].delivered
      /\ Exited(c)
      /\ escalation[c] > 0
      /\ timeout[c] # "fired" )
    => cmd[c].status = STOPPED

\* C12: a stopCommand call for an id that is not in the registry, or whose
\* command is not Running, returns false and changes nothing: no kill() call,
\* no timer, the registry, the process table, every command record, every
\* process and every observer's log as before.
C12_RefusedStopChangesNothing ==
  [][ budget'.stops < budget.stops =>
        LET c == stopResult'.id
        IN  (c \notin commands \/ cmd[c].status # RUNNING) =>
              /\ stopResult'.value = FALSE
              /\ UNCHANGED << commands, cmd, processes, terminal, isCompleted,
                              timeout, escalation, visTimer, rejected, proc,
                              events, kills, nextId, arrived, denied,
                              execTerminal >> ]_vars

\* stopCommand returned false for a background command that had completed,
\* while another command is Running
C12_Witness ==
  \E c, d \in Ids :
    /\ stopResult = [id |-> c, value |-> FALSE]
    /\ c \in commands
    /\ cmd[c].location = CHAT
    /\ cmd[c].status = COMPLETED
    /\ kills[c] = {}
    /\ escalation[c] = 0
    /\ cmd[d].status = RUNNING

\* the positions of a chunk at which a line ends or begins: its newlines
\* and the two ends
Cuts(s) == {0, Len(s) + 1} \cup {i \in 1..Len(s) : s[i] = NL}

\* the lines of chunk s that begin after cut i, in order: the characters
\* between two neighbouring cuts, unless all of them are whitespace
RECURSIVE LinesAfter(_, _)
LinesAfter(s, i) ==
  IF i > Len(s) THEN <<>>
  ELSE LET j == CHOOSE k \in Cuts(s) : k > i /\ \A m \in Cuts(s) : m > i => k <= m
           seg == [n \in 1..(j - i - 1) |-> s[i + n]]
           kept == \E n \in 1..(j - i - 1) : s[i + n] \notin {" ", "\t"}
       IN  (IF kept THEN <<seg>> ELSE <<>>) \o LinesAfter(s, j)

\* the output lines that a sequence of arrived chunks must have produced
RECURSIVE ExpectedOutput(_)
ExpectedOutput(arr) ==
  IF arr = <<>> THEN <<>>
  ELSE LET first == LinesAfter(Head(arr).chunk, 0)
       IN  [n \in 1..Len(first) |->
              [content |-> first[n], type |-> Head(arr).type]]
           \o ExpectedOutput(Tail(arr))

\* C13: the output of a command is the concatenation, in arrival order and
\* across both streams, of the lines of the chunks that arrived: each chunk
\* cut at its newlines, whitespace-only lines dropped, the other lines in
\* their order and tagged with the stream of their chunk.
C13_OutputInArrivalOrder ==
  \A c \in commands : cmd[c].output = ExpectedOutput(arrived[c])

\* "a\nb\n" arrived on stdout after a stderr chunk with a blank line in it
C13_Witness ==
  \E c \in commands :
    /\ arrived[c] = << [chunk |-> <<"a", NL, " ", NL, "b">>, type |-> "stderr"],
                       [chunk |-> ExampleChunk, type |-> "stdout"] >>
    /\ cmd[c].output = << [content |-> <<"a">>, type |-> "stderr"],
                          [content |-> <<"b">>, type |-> "stderr"],
                          [content |-> <<"a">>, type |-> "stdout"],
                          [content |-> <<"b">>, type |-> "stdout"] >>

\* a Running status event precedes the i-th event of command c
RunningBefore(c, i) ==
  \E j \in 1..(i - 1) :
    events[c][j].kind = "status" /\ events[c][j].status = RUNNING

\* executeCommand of c threw before a process or a terminal was started, and
\* its catch block ran
StartThrew(c) ==
  /\ cmd[c].status = FAILED
  /\ ~rejected[c]
  /\ timeout[c] = "none"
  /\ visTimer[c] = "none"

\* C14 as stated: every output event and every complete event of a command
\* comes after a Running status event of that command.
C14_RunningFirst ==
  \A c \in Ids : \A i \in 1..Len(events[c]) :
    events[c][i].kind \in {"output", "complete"} => RunningBefore(c, i)

\* C14 amended: every output event and every complete event of a command
\* comes after a Running status event of it, except for a command whose
\* start threw (Pending -> Failed): its only event is the complete event with
\* exit code 1 and status Failed.
C14_RunningFirstUnlessThrown ==
  \A c \in Ids : \A i \in 1..Len(events[c]) :
    events[c][i].kind \in {"output", "complete"} =>
      \/ RunningBefore(c, i)
      \/ StartThrew(c) /\ events[c] = << CompleteEv(1, FAILED) >>

\* one command whose start threw, another that reported Running, then
\* output, then its completion
C14_Witness ==
  \E c, d \in Ids :
    /\ StartThrew(c)
    /\ events[c] = << CompleteEv(1, FAILED) >>
    /\ Len(events[d]) >= 3
    /\ events[d][1] = StatusEv(RUNNING, Pid(d))
    /\ events[d][2].kind = "output"
    /\ events[d][Len(events[d])].kind = "complete"

\* C15: the status observer has received a status event for the transition
\* into the status a command ended in (Completed, Failed or Stopped), as it
\* has for the transition into Running.
C15_StatusEventPerTransition ==
  \A c \in Ids :
    IsTerminal(c) =>
      \E i \in 1..Len(events[c]) :
        events[c][i].kind = "status" /\ events[c][i].status = cmd[c].status

DisposeKill == [sig |-> SIGTERM, by |-> "dispose"]

\* C16: in every reachable state, with any number of tracked commands,
\* dispose() calls kill(SIGTERM) on every process in the table, arms no
\* force-kill timer, and leaves the process table, the terminal table and the
\* registry empty; a dispose() right after it makes no kill() call and
\* changes nothing.
C16_DisposeIdempotent ==
  \A fails \in SUBSET processes :
    LET S1 == disposeAll(St, fails)
        S2 == disposeAll(S1, {})
    IN  /\ \A c \in processes : DisposeKill \in S1.kills[c]
        /\ S1.escalation = escalation
        /\ S1.processes = {}
        /\ S1.terminal = "absent"
        /\ S1.commands = {}
        /\ S2 = S1

\* dispose() was called with two Running commands and both processes got
\* the signal
C16_Witness ==
  /\ commands = {}
  /\ processes = {}
  /\ \A c \in Ids :
       /\ cmd[c].status = RUNNING
       /\ kills[c] = {DisposeKill}
       /\ SIGTERM \in proc[c].delivered
       /\ escalation[c] = 0

\* C17 as stated: whatever the step, a command that leaves the registry is
\* in status Completed, Failed or Stopped.
C17_OnlyTerminalEvicted ==
  [][\A c \in commands : c \notin commands' => IsTerminal(c)]_vars

\* C17 amended: a step that removes a command from the registry either
\* removes exactly the commands in status Completed, Failed or Stopped
\* (clearCompleted) or is a shutdown, which empties the registry, the process
\* table and the terminal table whatever the statuses.
C17_EvictedByCleanupOrDispose ==
  [][ (commands \ commands' # {}) =>
        \/ commands' = {c \in commands : ~IsTerminal(c)}
        \/ commands' = {} /\ processes' = {} /\ terminal' = "absent" ]_vars

\* clearCompleted removed a finished command and kept a Running one
C17_Witness ==
  \E c, d \in Ids :
    /\ c \notin commands
    /\ IsTerminal(c)
    /\ d \in commands
    /\ cmd[d].status = RUNNING

\* the lines the supervisor itself appends to the output of a command
SupervisorLines == {TimeoutMsg, SpawnErrMsg, KillErrMsg}

\* C18: the output of every command in status Failed or Stopped holds at
\* least one line that the supervisor appended to explain the failure.
C18_FailureExplained ==
  \A c \in Ids :
    cmd[c].status \in {FAILED, STOPPED} =>
      \E i \in 1..Len(cmd[c].output) :
        cmd[c].output[i].content \in SupervisorLines

\* C19: a step in which the permission gate denies a command (the denial is
\* logged) registers no command, issues no id, spawns no process, opens no
\* terminal, arms no timer and delivers no event.
C19_DenyPreventsExecute ==
  [][ denied' > denied =>
        UNCHANGED << commands, cmd, processes, terminal, isCompleted, timeout,
                     escalation, visTimer, rejected, proc, events, kills,
                     nextId, arrived, execTerminal >> ]_vars

\* one command was denied, and the only command in the registry is one that
\* was allowed
C19_Witness ==
  /\ denied = 1
  /\ nextId = 2
  /\ commands = {1}
  /\ cmd[1].status = RUNNING
  /\ cmd[2] = NoCommand
  /\ proc[2] = NoProc

\* C20: a VisibleTerminal command is Running from the moment its text is
\* sent (the delay timer is armed) until the timer fires, and from then on it
\* is Completed and its one complete event carries exit code 0; once the text
\* was sent it is never Failed or Stopped.
C20_VisibleCompletes ==
  \A c \in Ids :
    cmd[c].location = MAIN =>
      /\ visTimer[c] = "armed" => cmd[c].status = RUNNING
      /\ visTimer[c] = "fired" =>
           /\ cmd[c].status = COMPLETED
           /\ Completes(c) = << CompleteEv(0, COMPLETED) >>
      /\ visTimer[c] # "none" => cmd[c].status \notin {FAILED, STOPPED}

\* a VisibleTerminal command ended Completed although the supervisor had been
\* disposed before the delay passed
C20_Witness ==
  \E c \in Ids :
    /\ cmd[c].location = MAIN
    /\ visTimer[c] = "fired"
    /\ cmd[c].status = COMPLETED
    /\ c \notin commands
    /\ events[c] = << StatusEv(RUNNING, NoPid), CompleteEv(0, COMPLETED) >>

\* the text contains word w, in any casing, at position i + 1
WordAt(text, w, i) ==
  /\ i + Len(w) <= Len(text)
  /\ \A k \in 1..Len(w) : LowerChar(text[i + k]) = w[k]

\* the text contains the word w, in any casing
ContainsWord(text, w) == \E i \in 0..Len(text) : WordAt(text, w, i)

\* the text contains the tokens w1 and w2, in any casing, with nothing but
\* whitespace (one character or more) between them
ContainsPair(text, w1, w2) ==
  \E i, j \in 0..Len(text) :
    /\ WordAt(text, w1, i)
    /\ j > i + Len(w1)
    /\ \A m \in (i + Len(w1) + 1)..j : text[m] \in Whitespace
    /\ WordAt(text, w2, j)

MatchesDangerous(command) ==
  \E k \in 1..Len(DangerousPatterns) :
    Test(DangerousPatterns[k], trim(toLowerCase(command)), FALSE)
MatchesModerate(command) ==
  \E k \in 1..Len(ModeratePatterns) :
    Test(ModeratePatterns[k], trim(toLowerCase(command)), FALSE)

\* C21: a submitted command that matches a Dangerous pattern is Dangerous,
\* whether or not it matches a Moderate pattern; one that matches no Dangerous
\* pattern but a Moderate one is Moderate; one that matches neither is Safe.
C21_DangerousFirst ==
  \A c \in commands :
    LET d == MatchesDangerous(cmd[c].command)
        m == MatchesModerate(cmd[c].command)
    IN  /\ d => cmd[c].riskLevel = DANGEROUS
        /\ (~d /\ m) => cmd[c].riskLevel = MODERATE
        /\ (~d /\ ~m) => cmd[c].riskLevel = SAFE

\* "rm -rf" matches /rm\s+-rf/ and /rm\s+/ and was classified Dangerous
C21_Witness ==
  \E c \in commands :
    /\ cmd[c].command = <<"r", "m", " ", "-", "r", "f">>
    /\ MatchesModerate(cmd[c].command)
    /\ cmd[c].riskLevel = DANGEROUS

\* C22: a submitted command whose text contains rm -rf, sudo or dd if=, in
\* any casing and with any whitespace (at least one character) between the
\* two tokens and anything around them, is Dangerous.
C22_LiteralsDangerous ==
  \A c \in commands :
    ( \/ ContainsPair(cmd[c].command, <<"r", "m">>, <<"-", "r", "f">>)
      \/ ContainsWord(cmd[c].command, <<"s", "u", "d", "o">>)
      \/ ContainsPair(cmd[c].command, <<"d", "d">>, <<"i", "f", "=">>) )
    => cmd[c].riskLevel = DANGEROUS

\* "RM \t-rf" (upper case, two whitespace characters) was classified
\* Dangerous
C22_Witness ==
  \E c \in commands :
    /\ cmd[c].command = <<"R", "M", " ", "\t", "-", "r", "f">>
    /\ cmd[c].riskLevel = DANGEROUS

RiskLevels == {SAFE, MODERATE, DANGEROUS}

\* C23: the riskLevel and the text of a command are set when the command is
\* created and no later step changes them, and any two commands with the
\* same text have the same riskLevel.
C23_RiskFixed ==
  [][ /\ \A c \in Ids :
          IF cmd[c].status = NONE
          THEN cmd'[c].status # NONE => cmd'[c].riskLevel \in RiskLevels
          ELSE /\ cmd'[c].riskLevel = cmd[c].riskLevel
               /\ cmd'[c].command = cmd[c].command
      /\ \A c, d \in Ids :
          ( /\ cmd'[c].status # NONE
            /\ cmd'[d].status # NONE
            /\ cmd'[c].command = cmd'[d].command )
          => cmd'[c].riskLevel = cmd'[d].riskLevel ]_vars

\* two commands with the text "sudo ls", one run in the background and
\* stopped, one sent to the terminal and completed, both still Dangerous
C23_Witness ==
  \E c, d \in Ids :
    /\ cmd[c].command = <<"s", "u", "d", "o", " ", "l", "s">>
    /\ cmd[d].command = cmd[c].command
    /\ cmd[c].location = CHAT
    /\ cmd[c].status = STOPPED
    /\ cmd[d].location = MAIN
    /\ cmd[d].status = COMPLETED
    /\ cmd[c].riskLevel = DANGEROUS
    /\ cmd[d].riskLevel = DANGEROUS

\* the input expresses a delete-file or a delete-folder intent
DeleteIntent(input) ==
  \/ isDeleteFileIntent(trim(toLowerCase(input)))
  \/ isDeleteFolderIntent(trim(toLowerCase(input)))

\* C24: an input that matches the delete-file or the delete-folder matcher
\* resolves to a command that requires confirmation.
C24_DeleteNeedsConfirmation ==
  (resolved.done /\ DeleteIntent(resolved.input)) =>
    (~resolved.result.null /\ resolved.result.requiresConfirmation)

\* The intent matchers in the order of the claim; 18 stands for no matcher.
Matchers ==
  << "install", "build", "dev", "test", "script", "read", "create", "edit",
     "delete-file", "move", "copy", "search", "list", "mkdir",
     "delete-folder", "touch", "scaffold" >>

Fires(matcher, lowerInput) ==
  CASE matcher = "install" -> isInstallIntent(lowerInput)
    [] matcher = "build" -> isBuildIntent(lowerInput)
    [] matcher = "dev" -> isDevIntent(lowerInput)
    [] matcher = "test" -> isTestIntent(lowerInput)
    [] matcher = "script" -> isScriptIntent(lowerInput)
    [] matcher = "read" -> isReadFileIntent(lowerInput)
    [] matcher = "create" -> isCreateFileIntent(lowerInput)
    [] matcher = "edit" -> isEditFileIntent(lowerInput)
    [] matcher = "delete-file" -> isDeleteFileIntent(lowerInput)
    [] matcher = "move" -> isMoveFileIntent(lowerInput)
    [] matcher = "copy" -> isCopyFileIntent(lowerInput)
    [] matcher = "search" -> isSearchFileIntent(lowerInput)
    [] matcher = "list" -> isListFilesIntent(lowerInput)
    [] matcher = "mkdir" -> isMkdirIntent(lowerInput)
    [] matcher = "delete-folder" -> isDeleteFolderIntent(lowerInput)
    [] matcher = "touch" -> isTouchIntent(lowerInput)
    [] matcher = "scaffold" -> isScaffoldIntent(lowerInput)

\* the matchers that fire on the input of the last resolution, by position
Firing ==
  UNION { {k \in 1..Len(Matchers) : Fires(Matchers[k], lowerInput)} :
          lowerInput \in {trim(toLowerCase(resolved.input))} }
First(firing) ==
  IF firing = {} THEN Len(Matchers) + 1
  ELSE CHOOSE k \in firing : \A m \in firing : k <= m

\* what the resolver of a matcher returns for the last resolution, given the
\* scripts its lookup returned
ResultOf(matcher) ==
  LET input == resolved.input
      lowerInput == CHOOSE text \in {trim(toLowerCase(input))} : TRUE
      stackInfo == resolved.stackInfo
      isDangerous == isDangerousCommand(input)
      L == [scripts |-> resolved.lookup.scripts]
  IN  CASE matcher = "install" -> resolveInstallCommand(stackInfo, isDangerous)
        [] matcher = "build" ->
             resolveBuildCommand(stackInfo, isDangerous, L).result
        [] matcher = "dev" ->
             resolveDevCommand(stackInfo, isDangerous, L, resolved.root).result
        [] matcher = "test" ->
             resolveTestCommand(stackInfo, isDangerous, L).result
        [] matcher = "script" ->
             resolveScriptCommand(lowerInput, stackInfo, isDangerous, L,
                                  resolved.root).result
        [] matcher = "read" -> resolveReadFile(input, isDangerous)
        [] matcher = "create" -> resolveCreateFile(input, isDangerous)
        [] matcher = "edit" -> resolveEditFile(input, isDangerous)
        [] matcher = "delete-file" -> resolveDeleteFile(input, TRUE)
        [] matcher = "move" -> resolveMoveFile(input, isDangerous)
        [] matcher = "copy" -> resolveCopyFile(input, isDangerous)
        [] matcher = "search" -> resolveSearchFile(input, isDangerous)
        [] matcher = "list" -> resolveListFiles(input, isDangerous)
        [] matcher = "mkdir" -> resolveMkdir(input, isDangerous)
        [] matcher = "delete-folder" -> resolveDeleteFolder(input, TRUE)
        [] matcher = "touch" -> resolveFileCreation(input, isDangerous)
        [] matcher = "scaffold" ->
             resolveScaffoldCommand(lowerInput, isDangerous)

\* C25: when some matcher fires on the input, the result of the resolution
\* is the result of the earliest matcher, in the order install, build, dev,
\* test, script, read, create, edit, delete-file, move, copy, search, list,
\* mkdir, delete-folder, touch, scaffold, that fires.
C25_FirstMatcherWins ==
  resolved.done =>
    \A firing \in {Firing} :
      firing # {} => resolved.result = ResultOf(Matchers[First(firing)])

\* "remove folder build" fires the build, the move and the delete-folder
\* matchers and was resolved, in a Node project, to the build command
C25_Witness ==
  /\ resolved.done
  /\ resolved.input = <<"r", "e", "m", "o", "v", "e", " ", "f", "o", "l", "d", "e", "r", " ", "b", "u", "i", "l", "d">>
  /\ {2, 10, 15} \subseteq Firing
  /\ resolved.lookup.called
  /\ resolved.result.command \in {<<"y", "a", "r", "n", " ", "r", "u", "n", " ", "b", "u", "i", "l", "d">>, <<"n", "p", "m", " ", "r", "u", "n", " ", "b", "u", "i", "l", "d">>}

\* C26: when no matcher fires on the input, the resolution returns a
\* command (not null) whose text is the input, character for character.
C26_PassThroughUnchanged ==
  (resolved.done /\ Firing = {}) =>
    (~resolved.result.null /\ resolved.result.command = resolved.input)

\* an input with capitals and with whitespace at both ends, on which no
\* matcher fires, was resolved
C26_Witness ==
  /\ resolved.done
  /\ resolved.input = <<" ", " ", "L", "S", " ", "-", "L", "a", "\t">>
  /\ Firing = {}
  /\ trim(toLowerCase(resolved.input)) = <<"l", "s", " ", "-", "l", "a">>
  /\ resolved.result.command = <<" ", " ", "L", "S", " ", "-", "L", "a", "\t">>

C28_CachePerProject ==
  (resolved.done /\ resolved.lookup.called) =>
    LET lookup == resolved.lookup
        entry == lookup.entry
        age == lookup.at - entry.timestamp
    IN  /\ (entry.cached /\ entry.from = lookup.root /\ age < CACHE_TTL) =>
             (~lookup.read /\ lookup.scripts = entry.scripts)
        /\ (entry.cached /\ entry.from = lookup.root /\ age >= CACHE_TTL) =>
             lookup.read
        /\ (entry.cached /\ entry.from # lookup.root) => lookup.read

\* what the build, dev and test intents fall back to in a Node project
Fallback(input) ==
  CASE input = <<"r", "u", "n", " ", "b", "u", "i", "l", "d">> -> <<"n", "p", "m", " ", "r", "u", "n", " ", "b", "u", "i", "l", "d">>
    [] input = <<"r", "u", "n", " ", "d", "e", "v">> -> <<"n", "p", "m", " ", "r", "u", "n", " ", "d", "e", "v">>
    [] input = <<"r", "u", "n", " ", "t", "e", "s", "t">> -> <<"n", "p", "m", " ", "t", "e", "s", "t">>

\* C29: a resolution whose lookup reads a package.json that is unreadable
\* or is not JSON gets the empty script map, leaves the cache as it was,
\* and returns the fallback command of its intent.
C29_UnreadableManifest ==
  [][ ( /\ resolved' # resolved
        /\ resolved'.lookup.called
        /\ resolved'.lookup.read
        /\ PackageJson(resolved'.lookup.root).file # "parsed" ) =>
      ( /\ resolved'.lookup.scripts = {}
        /\ scriptsCache' = scriptsCache
        /\ ~resolved'.result.null
        /\ resolved'.result.command = Fallback(resolved'.input) ) ]_vars

\* "run dev" was resolved in the folder whose package.json is not JSON, when
\* the cache held an expired entry, which is still there
C29_Witness ==
  /\ resolved.done
  /\ resolved.input = <<"r", "u", "n", " ", "d", "e", "v">>
  /\ resolved.lookup.read
  /\ PackageJson(resolved.lookup.root).file = "malformed"
  /\ resolved.lookup.entry.cached
  /\ scriptsCache = resolved.lookup.entry
  /\ resolved.result.command = <<"n", "p", "m", " ", "r", "u", "n", " ", "d", "e", "v">>

\* C30: a step in which a force-kill timer of stopCommand sends SIGKILL to
\* the process of a command is a step in which one of these timers fires,
\* after stopCommand sent SIGTERM to that process, while the process is in
\* the process table and has not exited and the command is Running.
C30_ForcedKillOnlyWhileRunning ==
  [][ \A c \in Ids :
        forced'[c] > forced[c] =>
          /\ StopSent(c)
          /\ escalation'[c] = escalation[c] - 1
          /\ c \in processes
          /\ proc[c].state # "exited"
          /\ cmd[c].status = RUNNING ]_vars

\* stopCommand was called MaxStops + 1 times, each time on the same command:
\* all its timers have fired, one of them sent the forced kill, and the
\* process has exited
C30_Witness ==
  \E c \in Ids :
    /\ budget.stops = 0
    /\ \A other \in Ids \ {c} : ~StopSent(other)
    /\ forced[c] = 1
    /\ escalation[c] = 0
    /\ proc[c].state = "exited"
    /\ cmd[c].status = STOPPED

\* the lines the output callback received for command c, in order
OutputEvents(c) == SelectSeq(events[c], LAMBDA e : e.kind = "output")
Delivered(c) == [i \in 1..Len(OutputEvents(c)) |-> OutputEvents(c)[i].line]

\* C31: output is streamed line by line: in every state the lines delivered
\* to the output observer for a command are exactly the lines stored in that
\* command's output, in the same order; no stored line waits for a later
\* event or for the completion of the command.
C31_StreamedLineByLine ==
  \A c \in Ids : Delivered(c) = cmd[c].output

\* a command that is still running, two lines of one chunk stored and
\* delivered
C31_Witness ==
  \E c \in Ids :
    /\ cmd[c].status = RUNNING
    /\ Len(cmd[c].output) = 2
    /\ Len(OutputEvents(c)) = 2
    /\ Completes(c) = <<>>

\* a step that concerns command a alone: an event of its process or of its
\* streams, one of its timers, the catch of its executeCommand call, or
\* stopCommand(a)
EventOf(a) ==
  \/ CatchError(a)
  \/ SpawnErrorEvent(a)
  \/ \E code \in ExitCodes \cup {NoCode}, signal \in Signals \cup {NoSignal} :
        ExitEvent(a, code, signal)
  \/ \E chunk \in Chunks, type \in Streams : DataEvent(a, chunk, type)
  \/ \E ok \in BOOLEAN : FailSafeTimeout(a, ok)
  \/ MainTerminalTimer(a)
  \/ \E ok \in BOOLEAN : StopCommand(a, ok)
  \/ StopCommandRefused(a)
  \/ \E ok \in BOOLEAN : EscalationTimer(a, ok)

\* the step leaves the record of b and its process-table entry as they were
Untouched(b) ==
  /\ cmd'[b].status = cmd[b].status
  /\ cmd'[b].output = cmd[b].output
  /\ cmd'[b].exitCode = cmd[b].exitCode
  /\ cmd'[b].pid = cmd[b].pid
  /\ (b \in processes') = (b \in processes)

\* C32: commands are independent: a step that concerns command a (a process
\* event, a fail-safe or force-kill timer, the delay timer, the catch, or
\* stopCommand(a)) leaves the status, output, exitCode, pid and process-table
\* entry of every other command unchanged.
C32_CommandsIndependent ==
  [][\A b \in Ids : ~Untouched(b) => \A a \in Ids \ {b} : ~EventOf(a)]_vars

\* two background commands ran at the same time; one has exited and the
\* other is still running, in the process table, with output received
C32_Witness ==
  \E a, b \in Ids :
    /\ a # b
    /\ Exited(a) /\ IsTerminal(a)
    /\ proc[b].state = "alive" /\ cmd[b].status = RUNNING /\ b \in processes
    /\ cmd[b].output # <<>>

\* getRunningCommands(), restricted to Background commands
RunningBackground ==
  {c \in commands : cmd[c].status = RUNNING /\ cmd[c].location = CHAT}

\* C33: the process table names exactly the Background commands of the
\* registry whose status is Running (the set getRunningCommands returns for
\* them).  As this holds before and after every step, the entry of a command
\* is added by the step that sets Running and removed by the step of its
\* terminal transition.
C33_TableIffRunning == processes = RunningBackground

\* the fail-safe timer ended one background command, which left the table,
\* while another one is still running and in the table
C33_Witness ==
  \E a, b \in Ids :
    /\ cmd[a].status = FAILED /\ timeout[a] = "fired" /\ a \in commands
    /\ cmd[b].status = RUNNING /\ cmd[b].location = CHAT
    /\ processes = {b}

\* C34: for every command in a terminal state the registry record has its
\* endTime and its exitCode set, and the stored exitCode is the exitCode that
\* the complete event of the command delivered.
C34_ExitCodeStored ==
  \A c \in Ids :
    IsTerminal(c) =>
      /\ cmd[c].ended
      /\ cmd[c].exitCode # NoCode
      /\ \A i \in 1..Len(Completes(c)) : Completes(c)[i].code = cmd[c].exitCode

\* a command that left the registry before it reached a terminal status: only
\* dispose() removes such a command (clearCompleted removes terminal ones)
Disposed(c) == cmd[c].status \in {PENDING, RUNNING} /\ c \notin commands

\* C35: after dispose() has returned, no output, status or complete event is
\* delivered for a command that dispose() removed from the registry, whatever
\* exit events, error events and timers of that command come later.
C35_SilentAfterDispose ==
  [][\A c \in Ids : Disposed(c) => events'[c] = events[c]]_vars

\* C36: on every input that the resolver passes through unchanged,
\* requiresConfirmation is true whenever assessCommandRisk classifies the
\* same text as Dangerous.
C36_ResolverAtLeastAsStrict ==
  (resolved.done /\ Firing = {} /\ assessCommandRisk(resolved.input) = DANGEROUS)
    => resolved.result.requiresConfirmation

\* the script map of the detected stack at the last resolution: the scripts
\* the package.json lookup returned, the composer scripts, the poetry
\* scripts; other stacks have none
ScriptMap ==
  LET primary == resolved.stackInfo.primary
  IN  IF primary \in NodeStacks THEN resolved.lookup.scripts
      ELSE IF primary \in {"php", "laravel"} THEN getComposerScripts(resolved.root)
      ELSE IF primary = "python" THEN getPythonScripts(resolved.root)
      ELSE {}
\* the script the input of the last resolution names
NamedScript ==
  Capture(ScriptPattern, trim(toLowerCase(resolved.input)), 1, <<>>)

\* C37: resolveCommand returns null exactly when the script-run matcher is
\* the first matcher that fires and the script the input names is absent
\* from the script map of the detected stack; in every other case the result
\* is a command.
C37_NullIffScriptAbsent ==
  resolved.done =>
    (resolved.result.null <=>
       (First(Firing) = 5 /\ NamedScript \notin ScriptMap))

\* C38: no output line of the webview store is lost: while the store has a
\* command for an id, every step keeps the lines its output holds and adds
\* new lines at the end only; in particular the lines of a placeholder are
\* still there after addCommand registers the command.
C38_NoLineLost ==
  [][\A id \in Ids :
       (webview.commands[id].present /\ webview'.commands[id].present) =>
         /\ Len(webview'.commands[id].output) >= Len(webview.commands[id].output)
         /\ SubSeq(webview'.commands[id].output, 1,
                   Len(webview.commands[id].output))
              = webview.commands[id].output]_vars

\* the processes registered so far
Registered == 1..manager.created

\* C39: after a final stopAll the table of ProcessManager is empty and
\* dispose was called exactly once on every process that was registered and
\* not explicitly removed, also on a process whose id was registered again
\* with another process.
C39_StopAllDisposesEachOnce ==
  manager.last = "stopAll" =>
    /\ manager.processes = {}
    /\ \A p \in Registered \ manager.removed : manager.disposals[p] = 1
====
